---- MODULE Spec2Model ----
(***************************************************************************)
(* QOnCommand: the device-protocol core of the QLab remote control server. *)
(* The server source is the JavaScript that follows the prose in           *)
(* src/README.md (line 238 onwards).  The module models                    *)
(*   - the shared OSC transport and its reply correlation,                 *)
(*   - the workspace pool and the session registry,                        *)
(*   - the debounced refresh of updateAllClientsCueInfo,                   *)
(*   - the selection debounce of skipToCue,                                *)
(*   - the cue caches of QLabOSCClient and QLabClientWrapper.              *)
(* Each part has its own specification over the one set of variables.      *)
(***************************************************************************)
EXTENDS Integers, Sequences, FiniteSets, TLC

\* ---------------------------------------------------------------- bounds
NumOscClients == 2      \* QLabOSCClient instances sharing the global port
MaxCalls == 3           \* reply-expecting sends in one behaviour
MaxPlainSends == 1      \* fire-and-forget sends in one behaviour
MaxRequests == 2        \* connect requests in one behaviour
MaxTriggers == 3        \* calls of updateAllClientsCueInfo in one behaviour
Tick == 250             \* ms by which the clock moves in one step
MaxClock == 1500        \* the clock stops here
MaxSkips == 3           \* skipToCue calls in one behaviour
MaxCueCalls == 2        \* cached queries started in one behaviour
CacheTick == 500        \* short step of the clock between cached queries
CacheLeap == 9500       \* long step of the clock between cached queries

\* -------------------------------------------------------- program constants
UPDATE_DEBOUNCE_MS == 500
SelectionDebounceMs == 500   \* (now - this.lastSelectionTime) < 500
cacheTimeout == 1000         \* this.cacheTimeout of QLabOSCClient
StaleCeilingMs == 10000      \* (Date.now() - this.lastSelectedUpdate) < 10000
cuesCacheTimeout == 10000    \* const cuesCacheTimeout of getAllCues

VARIABLES
    \* ---- shared OSC transport
    callbackIdCounter,   \* [OscClients -> Nat]      this.callbackIdCounter
    globalOSCCallbacks,  \* Seq([id, call])          the Map, in insertion order
    calls,               \* Seq(call record)         one per reply-expecting send
    wire,                \* Seq(call)                requests the device has still to answer
    errorCount,          \* Nat                      the process-wide error counter
    replyLog,            \* Seq([answers, settled])  history: what each reply settled
    plainSends,          \* Nat                      history: fire-and-forget writes
    sendAfterReply,      \* BOOLEAN                  history: a send followed a reply
    \* ---- workspace pool and session registry
    workspacePool,       \* [PoolKeys -> entry]      the Map workspaceId -> poolEntry
    clientConnections,   \* [ClientIds -> object]    the Map socketId -> clientData (0: none)
    clientObjs,          \* Seq([workspaceId])       the clientData objects
    socketState,         \* [SocketIds -> state]     the socket.io connection of a session
    graceTimers,         \* Seq(timer)               pending 30 s timers, oldest first
    handlers,            \* Seq(handler)             connect requests suspended at an await
    liveClients,         \* [PoolKeys -> Nat]        history: Protocol Clients built and not released
    requestCount,        \* Nat                      history: connect requests started
    reappeared,          \* [SocketIds -> BOOLEAN]   history: a request came after the disconnect
    \* ---- time and the update dispatcher
    clock,               \* Nat                      Date.now(), in ms
    updateTimeout,       \* timer id, 0 for null     let updateTimeout
    refreshTimers,       \* set of [id, due]         pending setTimeout(..., UPDATE_DEBOUNCE_MS)
    cycles,              \* set of [id, todo]        refresh callbacks suspended at an await
    triggerCount,        \* Nat                      history: calls of updateAllClientsCueInfo
    lastTrigger,         \* [at, burst]              history: the latest trigger
    cycleLog,            \* Seq([start, after, burst, id, broadcast]) history: the
                         \* refresh cycles started, and whether 'performance' was emitted
    pushLog,             \* Seq([to, at, cycle, outcome, stored]) history: the
                         \* 'cueInfo' messages emitted
    \* ---- the command routes
    commandsSent,        \* Nat                     let commandsSent
    totalLatencyMs,      \* Nat                     let totalLatencyMs
    delayTimers,         \* set of [id, due]: setTimeout(() => updateAllClientsCueInfo(), 100)
    routeCalls,          \* Nat: requests handled by /api/command and /api/skip
    lastResponse,        \* history: the JSON body the last request was answered with
    lastCommandAt,       \* history: when the last successful command returned
    \* ---- the TCP port objects of the transport
    globalOSCPort,       \* port id, 0 = null       let globalOSCPort
    oscPort,             \* [client -> port id]     this.oscPort
    portCount,           \* Nat: osc.TCPSocketPort objects constructed
    closedPorts,         \* set of port ids whose 'close' event was raised
    wroteToClosed,       \* history: a send was handed to a port already closed
    \* ---- selection debounce of the wrapper
    lastSelectedCueId,   \* cue id, Null at first    this.lastSelectedCueId
    lastSelectionTime,   \* Nat                      this.lastSelectionTime
    skipLog,             \* Seq([cue, at, outcome, ret]) history: the skipToCue calls
    \* ---- cue caches of one workspace client and its wrapper
    selectedCueCache,    \* value record            this.selectedCueCache
    lastSelectedUpdate,  \* Nat                     this.lastSelectedUpdate
    activeCueCache,      \* value record            this.activeCueCache
    lastActiveUpdate,    \* Nat                     this.lastActiveUpdate
    nextCueCache,        \* value record            this.nextCueCache
    lastNextUpdate,      \* Nat                     this.lastNextUpdate
    cachedCues,          \* value record            wrapper.cachedCues
    lastCuesUpdate,      \* Nat                     wrapper.lastCuesUpdate
    globalCueCache,      \* [cues, lastUpdate]      globalCueCache.get(workspaceId)
    cueCalls,            \* set of calls suspended at an await
    cueCallCount,        \* Nat: calls started
    lastDone,            \* history: the call that returned last
    cachedBeforeCommand, \* history: per cached query, the value its cache held when
                         \* the last command returned, until that query is next called
    \* ---- discovery
    discoveredInstances, \* Seq(instance)           the module-level list
    foundInstances,      \* Seq(instance)           of the call in progress
    discovery,           \* [pc, calls, result, seen, errors] the call and its promise
    \* ---- cue list lookups
    selectedCue,         \* what getSelectedCue returned to getNextCue
    cueLists,            \* the '/cueLists' reply read by getNextCue
    nextCue,             \* what getNextCue returned
    replyFormat,         \* shape of the reply read by getAllCues
    cueTree,             \* the reply read by getAllCues
    flatCues,            \* `cues`: what getAllCues returned
    \* ---- process exit
    shutdown,            \* [exited, entries, cleaned, threw] gracefulShutdown's run
    \* ---- inbound messages
    lastInbound,         \* history: [n, msg, passed] the message handled last
    \* ---- one Protocol Client
    currentWorkspaceId,  \* "" or a workspace id      this.currentWorkspaceId
    activation,          \* [pc, n, workspaceId, awaiting, steps, ret] setActiveWorkspace
    lastCommand,         \* history: [n, name, sent, ret] the command method called last
    workspacesCall,      \* [pc, n, awaiting, outcome, returned] getWorkspaces
    allCuesCall,         \* [pc, n, awaiting, sent, outcomes, returned] client getAllCues
    \* ---- the launcher (main.js)
    isPackaged,          \* BOOLEAN                  app.isPackaged
    serverProcess,       \* [kind, id]               let serverProcess
    inProcessServer,     \* BOOLEAN: not null        let inProcessServer
    children,            \* Seq([pc, killed, notified]) the child processes spawned
    autoStartPending,    \* BOOLEAN: the 1 s timer of app.whenReady() has not run
    lastLaunch           \* history: [n, op, success, error] the last start / stop call

oscVars == <<callbackIdCounter, globalOSCCallbacks, calls, wire, errorCount,
             replyLog, plainSends, sendAfterReply>>

poolVars == <<workspacePool, clientConnections, clientObjs, socketState,
              graceTimers, handlers, liveClients, requestCount, reappeared>>

debounceVars == <<clock, updateTimeout, refreshTimers, cycles, triggerCount,
                  lastTrigger, cycleLog, pushLog>>

routeVars == <<commandsSent, totalLatencyMs, delayTimers, routeCalls, lastResponse,
               lastCommandAt>>

portVars == <<globalOSCPort, oscPort, portCount, closedPorts, wroteToClosed>>

selectVars == <<lastSelectedCueId, lastSelectionTime, skipLog>>

cacheVars == <<selectedCueCache, lastSelectedUpdate, activeCueCache, lastActiveUpdate,
               nextCueCache, lastNextUpdate, cachedCues, lastCuesUpdate, globalCueCache,
               cueCalls, cueCallCount, lastDone, cachedBeforeCommand>>

discoveryVars == <<discoveredInstances, foundInstances, discovery>>

lookupVars == <<selectedCue, cueLists, nextCue, replyFormat, cueTree, flatCues>>

exitVars == <<shutdown>>

inboundVars == <<lastInbound>>

clientVars == <<currentWorkspaceId, activation, lastCommand, workspacesCall, allCuesCall>>

launcherVars == <<isPackaged, serverProcess, inProcessServer, children, autoStartPending,
                  lastLaunch>>

listVars == <<discoveryVars, lookupVars, exitVars, inboundVars, clientVars, launcherVars>>

vars == <<oscVars, poolVars, debounceVars, selectVars, cacheVars, portVars, routeVars,
          listVars>>

\* What the actions of one part leave alone.
nonOscVars == <<poolVars, debounceVars, selectVars, cacheVars, routeVars, listVars>>
nonPoolVars == <<oscVars, debounceVars, selectVars, cacheVars, portVars, routeVars,
                 listVars>>
nonDebounceVars == <<oscVars, poolVars, selectVars, cacheVars, portVars, routeVars,
                     listVars>>
nonCacheVars == <<oscVars, poolVars, selectVars, portVars, routeVars, listVars>>
nonAttachVars == <<oscVars, debounceVars, selectVars, cacheVars, portVars,
                   commandsSent, totalLatencyMs, delayTimers, lastCommandAt, listVars>>
nonLauncherVars == <<oscVars, poolVars, debounceVars, selectVars, cacheVars, portVars,
                     routeVars, discoveryVars, lookupVars, exitVars, inboundVars,
                     clientVars>>
nonListVars == <<oscVars, poolVars, debounceVars, selectVars, cacheVars, portVars,
                 routeVars, exitVars, inboundVars, clientVars, launcherVars>>

\* --------------------------------------------------------- initial values
OscClients == 1..NumOscClients
ClientIds == {"s1", "s2"}            \* session ids (socket.id / x-client-id)
SocketIds == {"s1"}                  \* the session ids that are socket ids
Null == "null"                       \* a null / undefined / empty workspace id
PoolKeys == {"default", "wsA", Null} \* keys of workspacePool

\* No poolEntry under a key.
NoEntry == [present |-> FALSE, client |-> 0, refCount |-> 0, clients |-> {}]

\* The module-level state of the transport and a fresh QLabOSCClient.
OscIdle ==
    /\ callbackIdCounter = [cl \in OscClients |-> 0]
    /\ globalOSCCallbacks = <<>>
    /\ calls = <<>>
    /\ wire = <<>>
    /\ errorCount = 0
    /\ replyLog = <<>>
    /\ plainSends = 0
    /\ sendAfterReply = FALSE
    /\ globalOSCPort = 1
    /\ oscPort = [cl \in OscClients |-> 1]
    /\ portCount = 1
    /\ closedPorts = {}
    /\ wroteToClosed = FALSE

\* const workspacePool = new Map(); const clientConnections = new Map();
PoolIdle ==
    /\ workspacePool = [w \in PoolKeys |-> NoEntry]
    /\ clientConnections = [s \in ClientIds |-> 0]
    /\ clientObjs = <<>>
    /\ socketState = [s \in SocketIds |-> "none"]
    /\ graceTimers = <<>>
    /\ handlers = <<>>
    /\ liveClients = [w \in PoolKeys |-> 0]
    /\ requestCount = 0
    /\ reappeared = [s \in SocketIds |-> FALSE]

\* let updateTimeout = null; no refresh is scheduled or running.
DebounceIdle ==
    /\ clock = 0
    /\ updateTimeout = 0
    /\ refreshTimers = {}
    /\ cycles = {}
    /\ triggerCount = 0
    /\ lastTrigger = [at |-> 0, burst |-> 0]
    /\ cycleLog = <<>>
    /\ pushLog = <<>>

\* let commandsSent = 0; let totalLatencyMs = 0.0; no request handled yet.
NoResponse == [n |-> 0, client |-> "none", route |-> "none", success |-> FALSE,
               error |-> "none"]
RouteIdle ==
    /\ commandsSent = 0
    /\ totalLatencyMs = 0
    /\ delayTimers = {}
    /\ routeCalls = 0
    /\ lastResponse = NoResponse
    /\ lastCommandAt = 0

\* Discovery has not run (`let discoveredInstances = []`) and no cue list
\* reply has been read.
NoCue == [tag |-> "none", id |-> 0, number |-> "none", name |-> "none"]

DiscoveryIdle ==
    /\ discoveredInstances = <<>>
    /\ foundInstances = <<>>
    /\ discovery = [pc |-> "idle", calls |-> 0, result |-> <<>>, error |-> FALSE,
                    viaWindow |-> FALSE, seen |-> <<>>, errors |-> 0]

NextCueIdle ==
    /\ selectedCue = NoCue
    /\ cueLists = <<>>
    /\ nextCue = NoCue

AllCuesIdle ==
    /\ replyFormat = "none"
    /\ cueTree = <<>>
    /\ flatCues = <<>>

LookupIdle == NextCueIdle /\ AllCuesIdle

\* The process runs: gracefulShutdown was not called.
ExitIdle == shutdown = [exited |-> FALSE, entries |-> {}, cleaned |-> {}, threw |-> {}]

\* No message has come in.
NoMessage == [address |-> "none", status |-> "none", data |-> "none"]
InboundIdle == lastInbound = [n |-> 0, msg |-> NoMessage, passed |-> "none"]

\* A Protocol Client as constructed: no workspace chosen, nothing called.
NoActivation == [pc |-> "idle", n |-> 0, workspaceId |-> "", awaiting |-> 0,
                 steps |-> <<>>, ret |-> "none"]
NoCommand == [n |-> 0, name |-> "none", sent |-> <<>>, ret |-> "none"]
NoResult == [tag |-> "none", items |-> <<>>]
NoOutcome == [kind |-> "none", result |-> NoResult]
NoWorkspacesCall == [pc |-> "idle", n |-> 0, awaiting |-> 0, outcome |-> NoOutcome,
                     returned |-> <<>>]
NoAllCuesCall == [pc |-> "idle", n |-> 0, awaiting |-> 0, sent |-> <<>>,
                  outcomes |-> <<>>, returned |-> <<>>]
ClientIdle ==
    /\ currentWorkspaceId = Null
    /\ activation = NoActivation
    /\ lastCommand = NoCommand
    /\ workspacesCall = NoWorkspacesCall
    /\ allCuesCall = NoAllCuesCall

\* The launcher before app.whenReady(): let serverProcess = null; let
\* inProcessServer = null; no child spawned, no start or stop called.
NoProcess == [kind |-> "null", id |-> 0]
NoLaunch == [n |-> 0, op |-> "none", success |-> FALSE, error |-> "none"]
LauncherStart(packaged) ==
    /\ isPackaged = packaged
    /\ serverProcess = NoProcess
    /\ inProcessServer = FALSE
    /\ children = <<>>
    /\ autoStartPending = TRUE
    /\ lastLaunch = NoLaunch

LauncherIdle == LauncherStart(FALSE)

ListIdle == DiscoveryIdle /\ LookupIdle /\ ExitIdle /\ InboundIdle /\ ClientIdle
    /\ LauncherIdle

\* res.json({ success, error }).
Respond(s, route, success, error) ==
    /\ routeCalls' = routeCalls + 1
    /\ lastResponse' = [n |-> routeCalls + 1, client |-> s, route |-> route,
                        success |-> success, error |-> error]

\* QLabClientWrapper.constructor: no selection was sent yet.
SelectIdle ==
    /\ lastSelectedCueId = Null
    /\ lastSelectionTime = 0
    /\ skipLog = <<>>

\* A cue object, a cue list or null.  n is the call that created the object,
\* so two objects are the same object iff their records are equal.
NoValue == [tag |-> "null", what |-> "none", n |-> 0, hasId |-> FALSE]
CueKinds == {"selected", "active", "next", "allCues"}
NoDone == [kind |-> "none", n |-> 0, returned |-> NoValue, queries |-> 0,
           returnedAt |-> 0, preCommand |-> NoValue,
           startState |-> "absent", startValue |-> NoValue, startAge |-> 0,
           failed |-> FALSE, failState |-> "none", failValue |-> NoValue,
           selFresh |-> FALSE, selHasId |-> FALSE, catalogEmpty |-> FALSE]

\* QLabOSCClient.constructor and QLabClientWrapper.constructor: empty caches.
CacheIdle ==
    /\ selectedCueCache = NoValue /\ lastSelectedUpdate = 0
    /\ activeCueCache = NoValue /\ lastActiveUpdate = 0
    /\ nextCueCache = NoValue /\ lastNextUpdate = 0
    /\ cachedCues = NoValue /\ lastCuesUpdate = 0
    /\ globalCueCache = [cues |-> NoValue, lastUpdate |-> 0]
    /\ cueCalls = {}
    /\ cueCallCount = 0
    /\ lastDone = NoDone
    /\ cachedBeforeCommand = [k \in CueKinds |-> NoValue]

\* The cue caches as a command leaves them when it returns.
CachesAtReturn(selected, active, next) ==
    [k \in CueKinds |-> CASE k = "selected" -> selected
                          [] k = "active" -> active
                          [] k = "next" -> next
                          [] OTHER -> NoValue]

\* ------------------------------------------------------------ Map helpers
\* A JavaScript Map as a sequence of [id, call] records in insertion order.
MapHas(m, k) == \E i \in 1..Len(m) : m[i].id = k

MapIndex(m, k) == CHOOSE i \in 1..Len(m) : m[i].id = k

\* Map.prototype.set: an existing key keeps its place and gets the new value,
\* a new key goes to the end.
MapSet(m, k, v) ==
    IF MapHas(m, k)
    THEN [m EXCEPT ![MapIndex(m, k)] = [id |-> k, call |-> v]]
    ELSE Append(m, [id |-> k, call |-> v])

\* Map.prototype.delete
MapDelete(m, k) ==
    IF MapHas(m, k)
    THEN LET j == MapIndex(m, k)
         IN  [i \in 1..(Len(m) - 1) |-> IF i < j THEN m[i] ELSE m[i + 1]]
    ELSE m

\* ------------------------------------------------------ the OSC transport
Pending(c) == calls[c].state = "pending"

\* resolve / reject of a promise: only the first settlement counts.
Settle(cs, c, st, res, err) ==
    IF cs[c].state = "pending"
    THEN [cs EXCEPT ![c].state = st, ![c].result = res, ![c].error = err]
    ELSE cs

\* this.oscPort.send(oscMessage) by client cl: the message goes to the port
\* object the client holds, whether or not that port was closed since.
WriteOn(cl) ==
    /\ wroteToClosed' = (wroteToClosed \/ oscPort[cl] \in closedPorts)
    /\ UNCHANGED <<globalOSCPort, oscPort, portCount, closedPorts>>

\* A message handed to a port reaches the device only while the port is open.
Delivered(cl, sendOk) == sendOk /\ oscPort[cl] \notin closedPorts

\* The id a reply-expecting send takes: ++this.callbackIdCounter.
NextCallbackId(cl) == callbackIdCounter[cl] + 1

\* sendOSCMessage(address, args, true): allocate the id, arm the 10 s timer,
\* store the callback in the global map, write the message.  sendOk = FALSE
\* is this.oscPort.send throwing (the catch rejects the promise; the map
\* entry and the timer stay).
SendExpectingReply(cl, sendOk) ==
    /\ Len(calls) < MaxCalls
    /\ LET id == NextCallbackId(cl)
           c  == Len(calls) + 1
           rec == [client |-> cl, id |-> id,
                   state |-> IF sendOk THEN "pending" ELSE "rejected",
                   result |-> 0,
                   error |-> IF sendOk THEN "none" ELSE "sendError",
                   timer |-> "armed", written |-> Delivered(cl, sendOk),
                   port |-> oscPort[cl]]
       IN  /\ callbackIdCounter' = [callbackIdCounter EXCEPT ![cl] = id]
           /\ calls' = Append(calls, rec)
           /\ globalOSCCallbacks' = MapSet(globalOSCCallbacks, id, c)
           /\ wire' = IF Delivered(cl, sendOk) THEN Append(wire, c) ELSE wire
    /\ sendAfterReply' = (sendAfterReply \/ Len(replyLog) > 0)
    /\ WriteOn(cl)
    /\ UNCHANGED <<errorCount, replyLog, plainSends>>

\* A reply-expecting send of client cl, nothing else happening.
sendOSCMessageReply(cl, sendOk) ==
    /\ SendExpectingReply(cl, sendOk)
    /\ UNCHANGED nonOscVars

\* this.oscPort.send(oscMessage) of a message that expects no reply: the
\* message is written unless send throws.
PlainWrite(sendOk) ==
    plainSends' = IF sendOk THEN plainSends + 1 ELSE plainSends

\* sendOSCMessage(address, args, false): write and resolve(true) at once, or
\* reject when the write throws; no PendingCall is registered.
SendExpectingNone(cl, sendOk) ==
    /\ PlainWrite(sendOk)
    /\ WriteOn(cl)
    /\ UNCHANGED <<callbackIdCounter, globalOSCCallbacks, calls, wire,
                   errorCount, replyLog, sendAfterReply>>

\* A send of client cl that expects no reply, nothing else happening.
sendOSCMessagePlain(cl, sendOk) ==
    /\ plainSends < MaxPlainSends
    /\ SendExpectingNone(cl, sendOk)
    /\ UNCHANGED nonOscVars

\* Deadline timers all run 10 s, so they come due in the order they were armed.
TimerDue(c) ==
    /\ calls[c].timer = "armed"
    /\ \A d \in 1..(c - 1) : calls[d].timer # "armed"

\* The setTimeout callback of sendOSCMessage.
callTimeout(c) ==
    /\ c \in 1..Len(calls)
    /\ TimerDue(c)
    /\ IF MapHas(globalOSCCallbacks, calls[c].id)
       THEN /\ globalOSCCallbacks' = MapDelete(globalOSCCallbacks, calls[c].id)
            /\ errorCount' = errorCount + 1
            /\ calls' = [Settle(calls, c, "rejected", 0, "timeout")
                            EXCEPT ![c].timer = "fired"]
       ELSE /\ calls' = [calls EXCEPT ![c].timer = "fired"]
            /\ UNCHANGED <<globalOSCCallbacks, errorCount>>
    /\ UNCHANGED <<callbackIdCounter, wire, replyLog, plainSends, sendAfterReply>>
    /\ UNCHANGED <<nonOscVars, portVars>>

\* callbackFn(error, result): clearTimeout, then reject or resolve.
callbackFn(cs, c, ok, answers) ==
    LET cleared == IF cs[c].timer = "armed"
                   THEN [cs EXCEPT ![c].timer = "cleared"] ELSE cs
    IN  IF ok THEN Settle(cleared, c, "resolved", answers, "none")
              ELSE Settle(cleared, c, "rejected", 0, "qlabError")

\* The entry a '/reply' message is matched to: the first of the map.
OldestCallback(m) == m[1]

\* A reply met with no callback waiting, counted as an error.
DropReplyAsError(answers) ==
    /\ replyLog' = Append(replyLog, [answers |-> answers, settled |-> 0])
    /\ errorCount' = errorCount + 1
    /\ UNCHANGED <<globalOSCCallbacks, calls>>

\* else { // Silently handle when no callbacks are waiting }
DropReply(answers) ==
    /\ replyLog' = Append(replyLog, [answers |-> answers, settled |-> 0])
    /\ UNCHANGED <<globalOSCCallbacks, calls, errorCount>>

\* The '/reply' branch after the envelope was read: the oldest entry of the
\* map is deleted and its callback called, with an error when ~ok.
ReplyBranch(ok) ==
    /\ Len(wire) > 0
    /\ LET answers == Head(wire)
       IN  /\ wire' = Tail(wire)
           /\ IF Len(globalOSCCallbacks) > 0
              THEN LET e == OldestCallback(globalOSCCallbacks)
                   IN  /\ globalOSCCallbacks' = MapDelete(globalOSCCallbacks, e.id)
                       /\ calls' = callbackFn(calls, e.call, ok, answers)
                       /\ replyLog' = Append(replyLog,
                               [answers |-> answers, settled |-> e.call])
                       /\ UNCHANGED errorCount
              ELSE DropReply(answers)

\* handleGlobalOSCMessage for an address starting with '/reply'.  The device
\* answers its requests in order; `ok` is the status of the envelope.
handleReply(ok) ==
    /\ ReplyBranch(ok)
    /\ UNCHANGED <<callbackIdCounter, plainSends, sendAfterReply>>
    /\ UNCHANGED <<nonOscVars, portVars>>

InitOSC == OscIdle /\ PoolIdle /\ DebounceIdle /\ SelectIdle /\ CacheIdle /\ RouteIdle
    /\ ListIdle

NextOSC ==
    \/ \E cl \in OscClients, sendOk \in BOOLEAN : sendOSCMessageReply(cl, sendOk)
    \/ \E cl \in OscClients, sendOk \in BOOLEAN : sendOSCMessagePlain(cl, sendOk)
    \/ \E c \in 1..MaxCalls : callTimeout(c)
    \/ \E ok \in BOOLEAN : handleReply(ok)

SpecOSC == InitOSC /\ [][NextOSC]_vars

\* ------------------------------------------------- claims on the transport
\* The calls that were written to the port, in the order they were sent.
WrittenCalls == SelectSeq([i \in 1..Len(calls) |-> i], LAMBDA c : calls[c].written)

\* C1.  FIFO correlation: when N reply-expecting sends, issued by one or
\* several QLabOSCClient instances, are followed by their replies in the same
\* order (no deadline has fired, no write has failed, no send came after a
\* reply), the k-th reply settles the k-th call sent.
C1_FifoCorrelation ==
    ( /\ ~sendAfterReply
      /\ \A c \in 1..Len(calls) : calls[c].written /\ calls[c].timer # "fired" )
    => \A k \in 1..Len(replyLog) :
          /\ replyLog[k].answers = WrittenCalls[k]
          /\ replyLog[k].settled = WrittenCalls[k]

\* C5.  Every reply-expecting send settles: once the deadline timer of a
\* call has run (or was cleared by a reply) its promise is resolved or
\* rejected; no promise is left pending behind its deadline.
C5_SettlesByDeadline ==
    \A c \in 1..Len(calls) : calls[c].timer # "armed" => ~Pending(c)

\* C6.  The id of a PendingCall is unique among the calls pending on the
\* shared transport: no two pending calls hold the same id, so registering
\* one never replaces another in the queue.
C6_PendingIdsUnique ==
    \A c, d \in 1..Len(calls) :
        (c # d /\ Pending(c) /\ Pending(d)) => calls[c].id # calls[d].id

\* ------------------------------------------- workspace pool and registry
\* if (clientData.workspaceId): null, undefined and '' are falsy.
Falsy(w) == w = Null

RemoveAt(q, i) == [j \in 1..(Len(q) - 1) |-> IF j < i THEN q[j] ELSE q[j + 1]]

\* addClientToWorkspace(clientId, workspaceId)
addClientToWorkspace(pool, s, w) ==
    IF pool[w].present
    THEN [pool EXCEPT ![w].clients = @ \cup {s}, ![w].refCount = @ + 1]
    ELSE pool

\* The poolEntry is deleted by this removal.
LastReference(pool, w) == pool[w].present /\ pool[w].refCount - 1 <= 0

\* removeClientFromWorkspace(clientId, workspaceId)
removeClientFromWorkspace(pool, s, w) ==
    IF pool[w].present
    THEN IF LastReference(pool, w)
         THEN [pool EXCEPT ![w] = NoEntry]
         ELSE [pool EXCEPT ![w].clients = @ \ {s}, ![w].refCount = @ - 1]
    ELSE pool

\* poolEntry.client.cleanup() of a deleted entry releases its Protocol Client.
ReleasedBy(pool, live, w) ==
    IF LastReference(pool, w) /\ live[w] > 0 THEN [live EXCEPT ![w] = @ - 1] ELSE live

\* The start of a connect route without its detach.
PrologueKeepsAttachment(s) ==
    LET fresh == clientConnections[s] = 0
    IN  [obj  |-> IF fresh THEN Len(clientObjs) + 1 ELSE clientConnections[s],
         objs |-> IF fresh THEN Append(clientObjs, [workspaceId |-> Null]) ELSE clientObjs,
         pool |-> workspacePool,
         live |-> liveClients]

\* The start of every connect route: get or create the clientData of the
\* session, then detach it from the workspace it is attached to.
Prologue(s) ==
    LET fresh == clientConnections[s] = 0
        obj   == IF fresh THEN Len(clientObjs) + 1 ELSE clientConnections[s]
        objs1 == IF fresh THEN Append(clientObjs, [workspaceId |-> Null])
                          ELSE clientObjs
        old   == objs1[obj].workspaceId
    IN  [obj  |-> obj,
         objs |-> [objs1 EXCEPT ![obj].workspaceId = Null],
         pool |-> IF Falsy(old) THEN workspacePool
                  ELSE removeClientFromWorkspace(workspacePool, s, old),
         live |-> IF Falsy(old) THEN liveClients
                  ELSE ReleasedBy(workspacePool, liveClients, old)]

NoteRequest(s) ==
    reappeared' = IF s \in SocketIds /\ socketState[s] = "disconnected"
                  THEN [reappeared EXCEPT ![s] = TRUE] ELSE reappeared

\* A fresh poolEntry: { client, refCount: 0, clients: new Set() }.
NewEntry(wrapper) == [present |-> TRUE, client |-> wrapper, refCount |-> 0, clients |-> {}]

\* addClientToWorkspace(clientId, workspaceId); clientData.workspaceId = workspaceId
Attach(pool, objs, s, obj, w) ==
    /\ workspacePool' = addClientToWorkspace(pool, s, w)
    /\ clientObjs' = [objs EXCEPT ![obj].workspaceId = w]

\* getOrCreateWorkspaceConnection up to its await: an entry that exists is
\* returned (and the caller attaches at once); otherwise a QLabClientWrapper
\* is constructed and the request waits for client.initialize().
getOrCreateWorkspaceConnection(p, s, w, route, rest, req) ==
    IF p.pool[w].present
    THEN /\ Attach(p.pool, p.objs, s, p.obj, w)
         /\ handlers' = rest
         /\ liveClients' = p.live
         /\ Respond(s, route, TRUE, "none")
    ELSE /\ UNCHANGED <<routeCalls, lastResponse>>
         /\ workspacePool' = p.pool
         /\ clientObjs' = p.objs
         /\ handlers' = Append(rest, [client |-> s, route |-> route, ws |-> w,
                                      obj |-> p.obj, pc |-> "init",
                                      wrapper |-> req])
         /\ liveClients' = [p.live EXCEPT ![w] = @ + 1]

\* POST /api/connect_direct, up to the first await.
connectDirect(s) ==
    /\ ~shutdown.exited
    /\ requestCount < MaxRequests
    /\ requestCount' = requestCount + 1
    /\ NoteRequest(s)
    /\ clientConnections' = [clientConnections EXCEPT ![s] = Prologue(s).obj]
    /\ getOrCreateWorkspaceConnection(Prologue(s), s, "default", "direct", handlers,
                                      requestCount + 1)
    /\ UNCHANGED <<socketState, graceTimers>>
    /\ UNCHANGED nonAttachVars

\* POST /api/connect/:instanceId (a valid instance), up to the await of
\* getWorkspacesFromInstance.
connectInstance(s) ==
    /\ ~shutdown.exited
    /\ requestCount < MaxRequests
    /\ requestCount' = requestCount + 1
    /\ NoteRequest(s)
    /\ clientConnections' = [clientConnections EXCEPT ![s] = Prologue(s).obj]
    /\ workspacePool' = Prologue(s).pool
    /\ clientObjs' = Prologue(s).objs
    /\ liveClients' = Prologue(s).live
    /\ handlers' = Append(handlers, [client |-> s, route |-> "instance", ws |-> Null,
                                     obj |-> Prologue(s).obj, pc |-> "workspaces",
                                     wrapper |-> requestCount + 1])
    /\ UNCHANGED <<socketState, graceTimers>>
    /\ UNCHANGED <<routeCalls, lastResponse>>
    /\ UNCHANGED nonAttachVars

\* The id POST /api/connect/:instanceId takes from workspaces[0]: its id, or
\* null when the id is empty (the fallback "QLab (Default)" workspace).
FirstWorkspaceId(id) == IF id = "" THEN Null ELSE id

\* POST /api/connect/:instanceId after getWorkspacesFromInstance returned.
connectInstanceWorkspaces(i, id) ==
    /\ ~shutdown.exited
    /\ i \in 1..Len(handlers)
    /\ handlers[i].pc = "workspaces"
    /\ NoteRequest(handlers[i].client)
    /\ getOrCreateWorkspaceConnection(
           [obj |-> handlers[i].obj, objs |-> clientObjs, pool |-> workspacePool,
            live |-> liveClients],
           handlers[i].client, FirstWorkspaceId(id), "instance", RemoveAt(handlers, i),
           handlers[i].wrapper)
    /\ UNCHANGED <<clientConnections, socketState, graceTimers, requestCount>>
    /\ UNCHANGED nonAttachVars

\* The wrapper's set on the pool entry before its test of connectionError.
AttachFailedAfterSet(h) ==
    /\ liveClients' = [liveClients EXCEPT ![h.ws] = @ - 1]
    /\ workspacePool' = [workspacePool EXCEPT ![h.ws] = NewEntry(h.wrapper)]
    /\ UNCHANGED clientObjs
    /\ Respond(h.client, h.route, FALSE, "Failed to connect")

\* client.connectionError || !client.connected: the error is thrown to the
\* route's catch, which answers { success: false }; the wrapper is dropped.
AttachFailed(h) ==
    /\ liveClients' = [liveClients EXCEPT ![h.ws] = @ - 1]
    /\ UNCHANGED <<workspacePool, clientObjs>>
    /\ Respond(h.client, h.route, FALSE, "Failed to connect")

\* getOrCreateWorkspaceConnection after `await client.initialize()`, and the
\* attach that follows in the route.  ok = FALSE: connectionError is set.
getOrCreateResume(i, ok) ==
    /\ ~shutdown.exited
    /\ i \in 1..Len(handlers)
    /\ handlers[i].pc = "init"
    /\ handlers[i].route \in {"direct", "instance"}
    /\ LET h == handlers[i]
       IN  /\ NoteRequest(h.client)
           /\ handlers' = RemoveAt(handlers, i)
           /\ IF ok
              THEN /\ Attach([workspacePool EXCEPT ![h.ws] = NewEntry(h.wrapper)],
                             clientObjs, h.client, h.obj, h.ws)
                   /\ UNCHANGED liveClients
                   /\ Respond(h.client, h.route, TRUE, "none")
              ELSE AttachFailed(h)
    /\ UNCHANGED <<clientConnections, socketState, graceTimers, requestCount>>
    /\ UNCHANGED nonAttachVars

\* POST /api/connect/:instanceId/:workspaceId (a valid instance), up to its
\* awaits: a QLabOSCClient and a QLabClientWrapper are built for the request.
connectWorkspace(s, w) ==
    /\ ~shutdown.exited
    /\ requestCount < MaxRequests
    /\ requestCount' = requestCount + 1
    /\ NoteRequest(s)
    /\ clientConnections' = [clientConnections EXCEPT ![s] = Prologue(s).obj]
    /\ workspacePool' = Prologue(s).pool
    /\ clientObjs' = Prologue(s).objs
    /\ liveClients' = [Prologue(s).live EXCEPT ![w] = @ + 1]
    /\ handlers' = Append(handlers, [client |-> s, route |-> "workspace", ws |-> w,
                                     obj |-> Prologue(s).obj, pc |-> "init",
                                     wrapper |-> requestCount + 1])
    /\ UNCHANGED <<socketState, graceTimers>>
    /\ UNCHANGED <<routeCalls, lastResponse>>
    /\ UNCHANGED nonAttachVars

\* POST /api/connect/:instanceId/:workspaceId after clientWrapper.initialize():
\* the wrapper goes into the pool only when the workspace has no entry.
connectWorkspaceResume(i, ok) ==
    /\ ~shutdown.exited
    /\ i \in 1..Len(handlers)
    /\ handlers[i].pc = "init"
    /\ handlers[i].route = "workspace"
    /\ LET h == handlers[i]
       IN  /\ NoteRequest(h.client)
           /\ handlers' = RemoveAt(handlers, i)
           /\ IF ok
              THEN /\ Attach(IF workspacePool[h.ws].present THEN workspacePool
                             ELSE [workspacePool EXCEPT ![h.ws] = NewEntry(h.wrapper)],
                             clientObjs, h.client, h.obj, h.ws)
                   /\ UNCHANGED liveClients
                   /\ Respond(h.client, h.route, TRUE, "none")
              ELSE AttachFailed(h)
    /\ UNCHANGED <<clientConnections, socketState, graceTimers, requestCount>>
    /\ UNCHANGED nonAttachVars

\* POST /api/disconnect
apiDisconnect(s) ==
    /\ ~shutdown.exited
    /\ NoteRequest(s)
    /\ IF clientConnections[s] # 0
       THEN LET w == clientObjs[clientConnections[s]].workspaceId
            IN  /\ workspacePool' = IF Falsy(w) THEN workspacePool
                       ELSE removeClientFromWorkspace(workspacePool, s, w)
                /\ liveClients' = IF Falsy(w) THEN liveClients
                       ELSE ReleasedBy(workspacePool, liveClients, w)
                /\ clientObjs' = [clientObjs EXCEPT ![clientConnections[s]].workspaceId = Null]
       ELSE UNCHANGED <<workspacePool, liveClients, clientObjs>>
    /\ UNCHANGED <<clientConnections, socketState, graceTimers, handlers, requestCount>>
    /\ UNCHANGED nonPoolVars

\* io.on('connection'): the registry gets a fresh clientData for the socket id.
socketConnection(s) ==
    /\ ~shutdown.exited
    /\ socketState[s] = "none"
    /\ clientConnections[s] = 0
    /\ socketState' = [socketState EXCEPT ![s] = "connected"]
    /\ clientObjs' = Append(clientObjs, [workspaceId |-> Null])
    /\ clientConnections' = [clientConnections EXCEPT ![s] = Len(clientObjs) + 1]
    /\ UNCHANGED <<workspacePool, graceTimers, handlers, liveClients, requestCount,
                   reappeared>>
    /\ UNCHANGED nonPoolVars

\* socket.on('disconnect'): two 30 s timers, the workspace clean-up (only for
\* an attached session) and then the removal of the registry entry.
socketDisconnect(s) ==
    /\ ~shutdown.exited
    /\ socketState[s] = "connected"
    /\ socketState' = [socketState EXCEPT ![s] = "disconnected"]
    /\ LET obj == clientConnections[s]
           cleanup == [kind |-> "cleanup", client |-> s, obj |-> obj]
           stale   == [kind |-> "stale", client |-> s, obj |-> obj]
       IN  graceTimers' =
              IF obj # 0 /\ ~Falsy(clientObjs[obj].workspaceId)
              THEN graceTimers \o <<cleanup, stale>>
              ELSE Append(graceTimers, stale)
    /\ UNCHANGED <<workspacePool, clientConnections, clientObjs, handlers,
                   liveClients, requestCount, reappeared>>
    /\ UNCHANGED nonPoolVars

\* The first 30 s callback: const stillExists = clientConnections.has(socket.id);
\* if (!stillExists) removeClientFromWorkspace(socket.id, clientData.workspaceId)
CleanupAbandoned(s, obj) ==
    IF clientConnections[s] = 0
    THEN [pool |-> removeClientFromWorkspace(workspacePool, s, clientObjs[obj].workspaceId),
          live |-> ReleasedBy(workspacePool, liveClients, clientObjs[obj].workspaceId)]
    ELSE [pool |-> workspacePool, live |-> liveClients]

\* The second 30 s callback: if (stillExists) clientConnections.delete(socket.id)
RemoveStale(s) ==
    IF clientConnections[s] # 0
    THEN [clientConnections EXCEPT ![s] = 0]
    ELSE clientConnections

\* The 30 s timers run in the order they were set.
graceTimerFires ==
    /\ ~shutdown.exited
    /\ Len(graceTimers) > 0
    /\ graceTimers' = Tail(graceTimers)
    /\ LET t == Head(graceTimers)
       IN  IF t.kind = "cleanup"
           THEN /\ workspacePool' = CleanupAbandoned(t.client, t.obj).pool
                /\ liveClients' = CleanupAbandoned(t.client, t.obj).live
                /\ UNCHANGED clientConnections
           ELSE /\ clientConnections' = RemoveStale(t.client)
                /\ UNCHANGED <<workspacePool, liveClients>>
    /\ UNCHANGED <<clientObjs, socketState, handlers, requestCount, reappeared>>
    /\ UNCHANGED nonPoolVars

\* The order in which workspacePool.entries() yields the keys.
PoolOrder == <<"default", "wsA", Null>>

\* The loop over the pool without its inner try: the first cleanup() that
\* throws ends the loop and the outer catch skips both clear() calls.
RECURSIVE CleanupUntilThrow(_, _)
CleanupUntilThrow(i, T) ==
    IF i > Len(PoolOrder) THEN [cleaned |-> {}, completed |-> TRUE]
    ELSE IF ~workspacePool[PoolOrder[i]].present THEN CleanupUntilThrow(i + 1, T)
    ELSE IF PoolOrder[i] \in T THEN [cleaned |-> {PoolOrder[i]}, completed |-> FALSE]
    ELSE [cleaned |-> {PoolOrder[i]} \cup CleanupUntilThrow(i + 1, T).cleaned,
          completed |-> CleanupUntilThrow(i + 1, T).completed]

\* for (const [workspaceId, poolEntry] of workspacePool.entries()) from the
\* i-th key on: cleanup() is called on each entry, one that throws (T) is
\* caught inside the loop.
RECURSIVE CleanupAll(_, _)
CleanupAll(i, T) ==
    IF i > Len(PoolOrder) THEN [cleaned |-> {}, completed |-> TRUE]
    ELSE IF ~workspacePool[PoolOrder[i]].present THEN CleanupAll(i + 1, T)
    ELSE [cleaned |-> {PoolOrder[i]} \cup CleanupAll(i + 1, T).cleaned,
          completed |-> CleanupAll(i + 1, T).completed]

\* The loop's run without its inner try.
ShutdownLoopUncaught(T) == CleanupUntilThrow(1, T)

\* The workspace part of gracefulShutdown up to the two clear() calls.
ShutdownLoop(T) == CleanupAll(1, T)

\* gracefulShutdown(): every entry's client is cleaned up, the pool and the
\* registry are cleared, the process exits.  T: the entries whose cleanup()
\* throws.
gracefulShutdown(T) ==
    /\ ~shutdown.exited
    /\ shutdown' = [exited |-> TRUE,
                    entries |-> {w \in PoolKeys : workspacePool[w].present},
                    cleaned |-> ShutdownLoop(T).cleaned,
                    threw |-> {w \in T : workspacePool[w].present}]
    /\ IF ShutdownLoop(T).completed
       THEN /\ workspacePool' = [w \in PoolKeys |-> NoEntry]
            /\ clientConnections' = [s \in ClientIds |-> 0]
       ELSE UNCHANGED <<workspacePool, clientConnections>>
    /\ UNCHANGED <<clientObjs, socketState, graceTimers, handlers, liveClients,
                   requestCount, reappeared>>
    /\ UNCHANGED <<oscVars, debounceVars, selectVars, cacheVars, portVars, routeVars,
                   discoveryVars, lookupVars, inboundVars, clientVars, launcherVars>>

InitPool == OscIdle /\ PoolIdle /\ DebounceIdle /\ SelectIdle /\ CacheIdle /\ RouteIdle
    /\ ListIdle

NextPool ==
    \/ \E s \in ClientIds : connectDirect(s)
    \/ \E s \in ClientIds : connectInstance(s)
    \/ \E i \in 1..MaxRequests, id \in {"", "wsA"} : connectInstanceWorkspaces(i, id)
    \/ \E i \in 1..MaxRequests, ok \in BOOLEAN : getOrCreateResume(i, ok)
    \/ \E s \in ClientIds, w \in {"default", "wsA"} : connectWorkspace(s, w)
    \/ \E i \in 1..MaxRequests, ok \in BOOLEAN : connectWorkspaceResume(i, ok)
    \/ \E s \in ClientIds : apiDisconnect(s)
    \/ \E s \in SocketIds : socketConnection(s)
    \/ \E s \in SocketIds : socketDisconnect(s)
    \/ graceTimerFires
    \/ \E T \in SUBSET {"default", "wsA"} : gracefulShutdown(T)

SpecPool == InitPool /\ [][NextPool]_vars

\* ---------------------------------------------------- claims on the pool
\* The workspace a registered session is attached to (Null: none).
AttachedTo(s) ==
    IF clientConnections[s] = 0 THEN Null
    ELSE clientObjs[clientConnections[s]].workspaceId

InFlight(w) == \E i \in 1..Len(handlers) : handlers[i].ws = w \/ handlers[i].pc = "workspaces"

\* C2.  Pool refcounting: once the attaches to a workspace id are done,
\* exactly one Protocol Client exists for it however many sessions attached;
\* while a session is still attached the poolEntry exists and holds it; and
\* an entry does not outlive its last attached session.
C2_PoolRefcounting ==
    /\ \A w \in PoolKeys : ~InFlight(w) => liveClients[w] <= 1
    /\ \A s \in ClientIds :
          ~Falsy(AttachedTo(s)) =>
              /\ workspacePool[AttachedTo(s)].present
              /\ s \in workspacePool[AttachedTo(s)].clients
    /\ \A w \in PoolKeys : workspacePool[w].present => workspacePool[w].clients # {}

TimerPendingFor(s) == \E i \in 1..Len(graceTimers) : graceTimers[i].client = s

\* C7.  Session grace period: once the 30 s after the disconnect of a session
\* have run out and the session did not come back, its registry entry is gone
\* and no poolEntry holds it any more.
C7_GraceExpiryReleases ==
    \A s \in SocketIds :
        (socketState[s] = "disconnected" /\ ~TimerPendingFor(s) /\ ~reappeared[s])
        => /\ clientConnections[s] = 0
           /\ \A w \in PoolKeys : s \notin workspacePool[w].clients

\* ------------------------------------------------- the update dispatcher
\* Sessions attached to workspace 'default' through one poolEntry: a state of
\* the registry and the pool after the sessions of A connected.
RegistryOf(K, A) ==
    /\ clientConnections = [s \in ClientIds |->
                               IF s \notin K THEN 0 ELSE IF s = "s1" THEN 1 ELSE 2]
    /\ clientObjs = [i \in 1..2 |->
           [workspaceId |-> IF (IF i = 1 THEN "s1" ELSE "s2") \in A
                            THEN "default" ELSE Null]]
    /\ workspacePool = [w \in PoolKeys |->
           IF w = "default" /\ A # {}
           THEN [present |-> TRUE, client |-> 1, refCount |-> Cardinality(A), clients |-> A]
           ELSE NoEntry]
    /\ socketState = [s \in SocketIds |-> "connected"]
    /\ graceTimers = <<>>
    /\ handlers = <<>>
    /\ liveClients = [w \in PoolKeys |-> IF w = "default" /\ A # {} THEN 1 ELSE 0]
    /\ requestCount = 0
    /\ reappeared = [s \in SocketIds |-> FALSE]

\* Every session registered, those of A attached.
RegistryWith(A) == RegistryOf(ClientIds, A)

\* clientConnections.keys(), in insertion order.
RegistryKeys == SelectSeq(<<"s1", "s2">>, LAMBDA s : clientConnections[s] # 0)

\* updateCueInfoForClient returns before any await: no clientData, no
\* workspaceId, or no poolEntry for it.
ReturnsOnlyIfUnknown(s) == clientConnections[s] = 0

ReturnsAtOnce(s) ==
    \/ clientConnections[s] = 0
    \/ Falsy(clientObjs[clientConnections[s]].workspaceId)
    \/ ~workspacePool[clientObjs[clientConnections[s]].workspaceId].present

\* The sessions left to refresh, from the first one whose refresh awaits the
\* device.
RECURSIVE SkipReturned(_)
SkipReturned(todo) ==
    IF todo = <<>> THEN <<>>
    ELSE IF ReturnsAtOnce(Head(todo)) THEN SkipReturned(Tail(todo))
    ELSE todo

\* clearTimeout(updateTimeout): a pending timer is cancelled, a timer that has
\* run already is not affected.
clearTimeout(timers, id) == {t \in timers : t.id # id}

\* The body of updateAllClientsCueInfo(): cancel the timer updateTimeout
\* names, set a new one.
RestartDebounce ==
    /\ triggerCount' = triggerCount + 1
    /\ refreshTimers' =
          (IF updateTimeout # 0 THEN clearTimeout(refreshTimers, updateTimeout)
           ELSE refreshTimers)
          \cup {[id |-> triggerCount + 1, due |-> clock + UPDATE_DEBOUNCE_MS]}
    /\ updateTimeout' = triggerCount + 1
    /\ lastTrigger' =
          [at |-> clock,
           burst |-> IF triggerCount = 0 \/ clock - lastTrigger.at >= UPDATE_DEBOUNCE_MS
                     THEN lastTrigger.burst + 1 ELSE lastTrigger.burst]

\* updateAllClientsCueInfo() called by an update message of the device.
updateAllClientsCueInfo ==
    /\ triggerCount < MaxTriggers
    /\ RestartDebounce
    /\ UNCHANGED <<clock, cycles, cycleLog, pushLog>>
    /\ UNCHANGED nonDebounceVars

\* A timer that is due, no timer being due before it.
RefreshDue(t) ==
    /\ t \in refreshTimers
    /\ t.due <= clock
    /\ \A u \in refreshTimers : u.due > t.due \/ (u.due = t.due /\ u.id >= t.id)

\* The callback of the debounce timer: the loop over clientConnections.keys()
\* runs to its first await; with nothing to await it runs to the end and
\* sets updateTimeout = null.
refreshTimerFires(id) ==
    /\ \E t \in refreshTimers : t.id = id /\ RefreshDue(t)
    /\ refreshTimers' = clearTimeout(refreshTimers, id)
    /\ cycleLog' = Append(cycleLog, [start |-> clock, after |-> lastTrigger.at,
                                     burst |-> lastTrigger.burst, id |-> id,
                                     broadcast |-> SkipReturned(RegistryKeys) = <<>>])
    /\ IF SkipReturned(RegistryKeys) = <<>>
       THEN /\ updateTimeout' = 0
            /\ UNCHANGED cycles
       ELSE /\ cycles' = cycles \cup {[id |-> id, todo |-> SkipReturned(RegistryKeys)]}
            /\ UNCHANGED updateTimeout
    /\ UNCHANGED <<clock, triggerCount, lastTrigger, pushLog>>
    /\ UNCHANGED nonDebounceVars

\* How the two queries of updateCueInfoForClient end for one session: with
\* cue data, with the placeholders the queries return when the device did
\* not answer, or with an exception that reaches the catch.
QueryOutcomes == {"ok", "failed", "thrown"}

\* if (currentCue) clientData.selectedCue = currentCue: reached unless the
\* try block threw; the queries return an object in either case.
StoresSnapshot(outcome) == outcome # "thrown"

\* The loop given up when the refresh of a session threw.
RestUnlessThrown(todo, outcome) ==
    IF outcome = "thrown" THEN <<>> ELSE SkipReturned(Tail(todo))

\* The sessions the loop still has to refresh after the one at hand.
Rest(todo, outcome) == SkipReturned(Tail(todo))

\* The entry of the cycle with timer id `id` in the log of cycles.
CycleIndex(log, id) == CHOOSE k \in 1..Len(log) : log[k].id = id

\* A suspended cycle goes on: the queries of updateCueInfoForClient for the
\* session at hand have settled and its 'cueInfo' is emitted, from the try
\* block or from the catch; the loop runs to the next await, or to its end,
\* where 'performance' is emitted and updateTimeout = null.
refreshCycleStep(id, outcome) ==
    /\ \E c \in cycles : c.id = id
    /\ LET c == CHOOSE d \in cycles : d.id = id IN
       /\ pushLog' = Append(pushLog, [to |-> Head(c.todo), at |-> clock, cycle |-> id,
                                      outcome |-> outcome,
                                      stored |-> StoresSnapshot(outcome)])
       /\ IF Rest(c.todo, outcome) = <<>>
          THEN /\ cycles' = cycles \ {c}
               /\ cycleLog' = [cycleLog EXCEPT ![CycleIndex(cycleLog, id)].broadcast = TRUE]
               /\ updateTimeout' = 0
          ELSE /\ cycles' = (cycles \ {c})
                                \cup {[c EXCEPT !.todo = Rest(c.todo, outcome)]}
               /\ UNCHANGED <<updateTimeout, cycleLog>>
    /\ UNCHANGED <<clock, refreshTimers, triggerCount, lastTrigger>>
    /\ UNCHANGED nonDebounceVars

\* Time passes; a timer that is due runs before the clock moves on.
advanceClock ==
    /\ clock + Tick <= MaxClock
    /\ \A t \in refreshTimers \cup delayTimers : t.due > clock
    /\ clock' = clock + Tick
    /\ UNCHANGED <<updateTimeout, refreshTimers, cycles, triggerCount, lastTrigger,
                   cycleLog, pushLog>>
    /\ UNCHANGED nonDebounceVars

InitDebounce ==
    /\ OscIdle
    /\ DebounceIdle
    /\ SelectIdle
    /\ CacheIdle
    /\ RouteIdle
    /\ ListIdle
    /\ \E A \in SUBSET ClientIds : RegistryWith(A)

NextDebounce ==
    \/ updateAllClientsCueInfo
    \/ \E id \in 1..MaxTriggers : refreshTimerFires(id)
    \/ \E id \in 1..MaxTriggers, outcome \in QueryOutcomes : refreshCycleStep(id, outcome)
    \/ advanceClock

SpecDebounce == InitDebounce /\ [][NextDebounce]_vars

\* ---------------------------------------------- claims on the dispatcher
\* C3.  Debounce coalescing: the triggers of one burst (each less than the
\* quiet period after the one before) produce one refresh cycle, and a cycle
\* starts exactly one quiet period after the latest trigger, never earlier.
C3_DebounceCoalescing ==
    /\ \A i \in 1..Len(cycleLog) :
          cycleLog[i].start - cycleLog[i].after = UPDATE_DEBOUNCE_MS
    /\ \A i, j \in 1..Len(cycleLog) :
          i # j => cycleLog[i].burst # cycleLog[j].burst

\* C4.  Single flight: at most one refresh cycle is in progress and at most
\* one refresh timer is pending, also when a trigger arrives while a cycle
\* awaits the device.
C4_SingleFlight ==
    /\ Cardinality(cycles) <= 1
    /\ Cardinality(refreshTimers) <= 1

\* ------------------------------------------------ the selection debounce
CueIds == {"42", "7"}

\* if (this.lastSelectedCueId === cueId && (now - this.lastSelectionTime) < 500)
RapidDuplicateFlipped(cueId, now) ==
    lastSelectedCueId = cueId /\ (now - lastSelectionTime) > SelectionDebounceMs

RapidDuplicate(cueId, now) ==
    lastSelectedCueId = cueId /\ (now - lastSelectionTime) < SelectionDebounceMs

\* QLabClientWrapper.skipToCue(cueId).  The send expects no reply, so the
\* call runs to its end without another event in between.
SkipToCueBody(cueId, sendOk) ==
    /\ IF RapidDuplicate(cueId, clock)
       THEN /\ skipLog' = Append(skipLog, [cue |-> cueId, at |-> clock,
                                           outcome |-> "suppressed", ret |-> TRUE])
            /\ UNCHANGED <<lastSelectedCueId, lastSelectionTime, plainSends,
                           cachedBeforeCommand>>
       ELSE /\ PlainWrite(sendOk)
            /\ IF sendOk
               THEN /\ lastSelectedCueId' = cueId
                    /\ lastSelectionTime' = clock
                    /\ skipLog' = Append(skipLog, [cue |-> cueId, at |-> clock,
                                                   outcome |-> "sent", ret |-> TRUE])
                    /\ cachedBeforeCommand' =
                           CachesAtReturn(selectedCueCache, activeCueCache, nextCueCache)
               ELSE /\ skipLog' = Append(skipLog, [cue |-> cueId, at |-> clock,
                                                   outcome |-> "failed", ret |-> FALSE])
                    /\ UNCHANGED <<lastSelectedCueId, lastSelectionTime,
                                   cachedBeforeCommand>>
    /\ UNCHANGED <<callbackIdCounter, globalOSCCallbacks, calls, wire,
                   replyLog, sendAfterReply>>
    /\ UNCHANGED <<selectedCueCache, lastSelectedUpdate, activeCueCache, lastActiveUpdate,
                   nextCueCache, lastNextUpdate, cachedCues, lastCuesUpdate, globalCueCache,
                   cueCalls, cueCallCount, lastDone>>
    /\ UNCHANGED <<poolVars, portVars>>

\* QLabClientWrapper.skipToCue(cueId) called on its own.
skipToCue(cueId, sendOk) ==
    /\ Len(skipLog) < MaxSkips
    /\ SkipToCueBody(cueId, sendOk)
    /\ UNCHANGED <<errorCount, debounceVars, routeVars, listVars>>

InitSelect == OscIdle /\ PoolIdle /\ DebounceIdle /\ SelectIdle /\ CacheIdle /\ RouteIdle
    /\ ListIdle

NextSelect ==
    \/ \E cueId \in CueIds, sendOk \in BOOLEAN : skipToCue(cueId, sendOk)
    \/ advanceClock

SpecSelect == InitSelect /\ [][NextSelect]_vars

\* --------------------------------------- claims on the selection debounce
SameCueWithinWindow(i, j) ==
    /\ i < j
    /\ skipLog[i].cue = skipLog[j].cue
    /\ skipLog[j].at - skipLog[i].at < SelectionDebounceMs

SendsOf(i, j) ==
    (IF skipLog[i].outcome = "sent" THEN 1 ELSE 0)
    + (IF skipLog[j].outcome = "sent" THEN 1 ELSE 0)

NoOtherSelectionBetween(i, j) ==
    \A k \in (i + 1)..(j - 1) :
        ~(skipLog[k].outcome = "sent" /\ skipLog[k].cue # skipLog[i].cue)

TtlReachesZero(cache, lastUpdate, now, ttl) ==
    cache.tag # "null" /\ (now - lastUpdate) < 0

CacheFresh(cache, lastUpdate, now, ttl) ==
    cache.tag # "null" /\ (now - lastUpdate) < ttl

\* A new object built by call n from a device reply; what tells the objects
\* of one call apart.
NewCue(n, what, hasId) == [tag |-> "cue", what |-> what, n |-> n, hasId |-> hasId]

\* The object literal a catch block returns; it is not cached.
Placeholder(n) == [tag |-> "placeholder", what |-> "error", n |-> n, hasId |-> FALSE]

\* How the cache stood when a call began.
StartState(cache, lastUpdate, now, ttl) ==
    IF cache.tag = "null" THEN "absent"
    ELSE IF (now - lastUpdate) < ttl THEN "fresh" ELSE "expired"

\* How the cache stood when a query failed.
FailState(cache, lastUpdate, now) ==
    IF cache.tag = "null" THEN "absent"
    ELSE IF (now - lastUpdate) < StaleCeilingMs THEN "young" ELSE "old"

\* The record of a call that returned; for the wrapper's getAllCues also the
\* reading of the clock when it returned.
Done(call, returned) ==
    [kind |-> call.kind, n |-> call.n, returned |-> returned, queries |-> call.queries,
     returnedAt |-> IF call.kind = "allCues" THEN clock ELSE 0,
     startState |-> call.startState, startValue |-> call.startValue,
     startAge |-> call.startAge, preCommand |-> call.preCommand,
     failed |-> call.failed, failState |-> call.failState, failValue |-> call.failValue,
     selFresh |-> call.selFresh, selHasId |-> call.selHasId,
     catalogEmpty |-> call.catalogEmpty]

\* A call at its first statement: const now = Date.now().
BeginCall(kind, startState, startValue, lastUpdate) ==
    [kind |-> kind, n |-> cueCallCount + 1, now |-> clock, stage |-> "start",
     sel |-> NoValue, queries |-> 0, preCommand |-> cachedBeforeCommand[kind],
     startState |-> startState, startValue |-> startValue,
     startAge |-> IF startValue.tag = "null" THEN 0 ELSE clock - lastUpdate,
     failed |-> FALSE, failState |-> "none", failValue |-> NoValue,
     selFresh |-> FALSE, selHasId |-> FALSE, catalogEmpty |-> FALSE]

\* await this.sendOSCMessage(address, args, true): one query leaves and the
\* call is suspended at stage st.
Query(call, st) == [call EXCEPT !.stage = st, !.queries = @ + 1]

\* The query of a call failed while the cache stood as given.
Failed(call, cache, lastUpdate, now) ==
    [call EXCEPT !.failed = TRUE,
                 !.failState = FailState(cache, lastUpdate, now),
                 !.failValue = cache]

\* QLabOSCClient.getSelectedCue up to its await.
getSelectedCue ==
    /\ cueCallCount < MaxCueCalls
    /\ cueCallCount' = cueCallCount + 1
    /\ cachedBeforeCommand' = [cachedBeforeCommand EXCEPT !["selected"] = NoValue]
    /\ LET call == BeginCall("selected",
                            StartState(selectedCueCache, lastSelectedUpdate, clock,
                                       cacheTimeout),
                            selectedCueCache, lastSelectedUpdate)
       IN IF CacheFresh(selectedCueCache, lastSelectedUpdate, clock, cacheTimeout)
          THEN /\ lastDone' = Done(call, selectedCueCache)
               /\ UNCHANGED cueCalls
          ELSE /\ cueCalls' = cueCalls \cup {Query(call, "selected")}
               /\ UNCHANGED lastDone
    /\ UNCHANGED <<selectedCueCache, lastSelectedUpdate, activeCueCache, lastActiveUpdate,
                   nextCueCache, lastNextUpdate, cachedCues, lastCuesUpdate,
                   globalCueCache>>
    /\ UNCHANGED <<nonCacheVars, debounceVars>>

\* getSelectedCue after its await: the reply is cached, a failed query runs
\* the catch block.
getSelectedCueResume(n, ok, hasId) ==
    \E call \in cueCalls :
        /\ call.n = n /\ call.stage = "selected"
        /\ cueCalls' = cueCalls \ {call}
        /\ IF ok
           THEN /\ selectedCueCache' = NewCue(call.n, "selected", hasId)
                /\ lastSelectedUpdate' = call.now
                /\ lastDone' = Done(call, NewCue(call.n, "selected", hasId))
           ELSE /\ lastDone' =
                       Done(Failed(call, selectedCueCache, lastSelectedUpdate, clock),
                            IF selectedCueCache.tag # "null"
                               /\ (clock - lastSelectedUpdate) < StaleCeilingMs
                            THEN selectedCueCache ELSE Placeholder(call.n))
                /\ UNCHANGED <<selectedCueCache, lastSelectedUpdate>>
        /\ UNCHANGED <<activeCueCache, lastActiveUpdate, nextCueCache, lastNextUpdate,
                       cachedCues, lastCuesUpdate, globalCueCache, cueCallCount,
                       cachedBeforeCommand>>
        /\ UNCHANGED <<nonCacheVars, debounceVars>>

\* QLabOSCClient.getActiveCue up to its await.
getActiveCue ==
    /\ cueCallCount < MaxCueCalls
    /\ cueCallCount' = cueCallCount + 1
    /\ cachedBeforeCommand' = [cachedBeforeCommand EXCEPT !["active"] = NoValue]
    /\ LET call == BeginCall("active",
                            StartState(activeCueCache, lastActiveUpdate, clock,
                                       cacheTimeout),
                            activeCueCache, lastActiveUpdate)
       IN IF CacheFresh(activeCueCache, lastActiveUpdate, clock, cacheTimeout)
          THEN /\ lastDone' = Done(call, activeCueCache)
               /\ UNCHANGED cueCalls
          ELSE /\ cueCalls' = cueCalls \cup {Query(call, "active")}
               /\ UNCHANGED lastDone
    /\ UNCHANGED <<selectedCueCache, lastSelectedUpdate, activeCueCache, lastActiveUpdate,
                   nextCueCache, lastNextUpdate, cachedCues, lastCuesUpdate,
                   globalCueCache>>
    /\ UNCHANGED <<nonCacheVars, debounceVars>>

\* getActiveCue after its await: the reply is cached, the catch block returns
\* the "Not available" literal whatever the cache holds.
getActiveCueResume(n, ok) ==
    \E call \in cueCalls :
        /\ call.n = n /\ call.stage = "active"
        /\ cueCalls' = cueCalls \ {call}
        /\ IF ok
           THEN /\ activeCueCache' = NewCue(call.n, "active", FALSE)
                /\ lastActiveUpdate' = call.now
                /\ lastDone' = Done(call, NewCue(call.n, "active", FALSE))
           ELSE /\ lastDone' = Done(Failed(call, activeCueCache, lastActiveUpdate, clock),
                                    Placeholder(call.n))
                /\ UNCHANGED <<activeCueCache, lastActiveUpdate>>
        /\ UNCHANGED <<selectedCueCache, lastSelectedUpdate, nextCueCache, lastNextUpdate,
                       cachedCues, lastCuesUpdate, globalCueCache, cueCallCount,
                       cachedBeforeCommand>>
        /\ UNCHANGED <<nonCacheVars, debounceVars>>

\* getNextCue from "if (!selectedCue || !selectedCue.id)" to its next await
\* or return, sel being what getSelectedCue returned.
NextCueAfterSelected(suspended, call, sel) ==
    IF ~sel.hasId
    THEN /\ nextCueCache' = NewCue(call.n, "next", FALSE)
         /\ lastNextUpdate' = call.now
         /\ lastDone' = Done(call, NewCue(call.n, "next", FALSE))
         /\ cueCalls' = cueCalls \ {suspended}
    ELSE /\ cueCalls' = (cueCalls \ {suspended}) \cup {Query([call EXCEPT !.sel = sel], "nextList")}
         /\ UNCHANGED <<nextCueCache, lastNextUpdate, lastDone>>

\* QLabOSCClient.getNextCue up to its first await on the device.
getNextCue ==
    /\ cueCallCount < MaxCueCalls
    /\ cueCallCount' = cueCallCount + 1
    /\ cachedBeforeCommand' = [cachedBeforeCommand EXCEPT !["next"] = NoValue]
    /\ LET call == BeginCall("next",
                             StartState(nextCueCache, lastNextUpdate, clock, cacheTimeout),
                             nextCueCache, lastNextUpdate)
       IN IF CacheFresh(nextCueCache, lastNextUpdate, clock, cacheTimeout)
          THEN /\ lastDone' = Done(call, nextCueCache)
               /\ UNCHANGED <<cueCalls, nextCueCache, lastNextUpdate>>
          ELSE IF CacheFresh(selectedCueCache, lastSelectedUpdate, clock, cacheTimeout)
          THEN NextCueAfterSelected(call,
                                    [call EXCEPT !.selFresh = TRUE,
                                                 !.selHasId = selectedCueCache.hasId],
                                    selectedCueCache)
          ELSE /\ cueCalls' = cueCalls \cup {Query(call, "nextSelected")}
               /\ UNCHANGED <<lastDone, nextCueCache, lastNextUpdate>>
    /\ UNCHANGED <<selectedCueCache, lastSelectedUpdate, activeCueCache, lastActiveUpdate,
                   cachedCues, lastCuesUpdate, globalCueCache>>
    /\ UNCHANGED <<nonCacheVars, debounceVars>>

\* getNextCue resumed when its inner getSelectedCue settles.
getNextCueSelectedResume(n, ok, hasId) ==
    \E call \in cueCalls :
        /\ call.n = n /\ call.stage = "nextSelected"
        /\ IF ok
           THEN /\ selectedCueCache' = NewCue(call.n, "selected", hasId)
                /\ lastSelectedUpdate' = call.now
                /\ NextCueAfterSelected(call, [call EXCEPT !.selHasId = hasId],
                                        NewCue(call.n, "selected", hasId))
           ELSE /\ UNCHANGED <<selectedCueCache, lastSelectedUpdate>>
                /\ LET sel == IF selectedCueCache.tag # "null"
                                 /\ (clock - lastSelectedUpdate) < StaleCeilingMs
                              THEN selectedCueCache ELSE Placeholder(call.n)
                   IN NextCueAfterSelected(
                          call,
                          [Failed(call, nextCueCache, lastNextUpdate, call.now)
                              EXCEPT !.selHasId = sel.hasId],
                          sel)
        /\ UNCHANGED <<activeCueCache, lastActiveUpdate, cachedCues, lastCuesUpdate,
                       globalCueCache, cueCallCount,
                       cachedBeforeCommand>>
        /\ UNCHANGED <<nonCacheVars, debounceVars>>

\* getNextCue resumed when the cue-list query settles; the catch block
\* measures the age of the cache from the start of the call.
getNextCueListResume(n, ok) ==
    \E call \in cueCalls :
        /\ call.n = n /\ call.stage = "nextList"
        /\ cueCalls' = cueCalls \ {call}
        /\ IF ok
           THEN /\ nextCueCache' = NewCue(call.n, "next", FALSE)
                /\ lastNextUpdate' = call.now
                /\ lastDone' = Done([call EXCEPT !.failed = FALSE, !.failState = "none",
                                                 !.failValue = NoValue],
                                    NewCue(call.n, "next", FALSE))
           ELSE /\ lastDone' =
                       Done(Failed(call, nextCueCache, lastNextUpdate, call.now),
                            IF nextCueCache.tag # "null"
                               /\ (call.now - lastNextUpdate) < StaleCeilingMs
                            THEN nextCueCache ELSE Placeholder(call.n))
                /\ UNCHANGED <<nextCueCache, lastNextUpdate>>
        /\ UNCHANGED <<selectedCueCache, lastSelectedUpdate, activeCueCache, lastActiveUpdate,
                       cachedCues, lastCuesUpdate, globalCueCache, cueCallCount,
                       cachedBeforeCommand>>
        /\ UNCHANGED <<nonCacheVars, debounceVars>>

\* The value a wrapper getAllCues call would serve from its caches.
CuesStartValue ==
    IF StartState(globalCueCache.cues, globalCueCache.lastUpdate, clock,
                  cuesCacheTimeout) = "fresh"
    THEN globalCueCache.cues ELSE cachedCues

CuesStartUpdate ==
    IF StartState(globalCueCache.cues, globalCueCache.lastUpdate, clock,
                  cuesCacheTimeout) = "fresh"
    THEN globalCueCache.lastUpdate ELSE lastCuesUpdate

CuesStartState ==
    LET g == StartState(globalCueCache.cues, globalCueCache.lastUpdate, clock,
                        cuesCacheTimeout)
        i == StartState(cachedCues, lastCuesUpdate, clock, cuesCacheTimeout)
    IN IF "fresh" \in {g, i} THEN "fresh"
       ELSE IF "expired" \in {g, i} THEN "expired" ELSE "absent"

\* QLabClientWrapper.getAllCues up to the first await of client.getAllCues().
getAllCues ==
    /\ cueCallCount < MaxCueCalls
    /\ cueCallCount' = cueCallCount + 1
    /\ cachedBeforeCommand' = [cachedBeforeCommand EXCEPT !["allCues"] = NoValue]
    /\ LET call == BeginCall("allCues", CuesStartState, CuesStartValue, CuesStartUpdate)
       IN IF CacheFresh(globalCueCache.cues, globalCueCache.lastUpdate, clock,
                        cuesCacheTimeout)
          THEN /\ lastDone' = Done(call, globalCueCache.cues)
               /\ UNCHANGED cueCalls
          ELSE IF CacheFresh(cachedCues, lastCuesUpdate, clock, cuesCacheTimeout)
          THEN /\ lastDone' = Done(call, cachedCues)
               /\ UNCHANGED cueCalls
          ELSE /\ cueCalls' = cueCalls \cup {Query(call, "catalog")}
               /\ UNCHANGED lastDone
    /\ UNCHANGED <<selectedCueCache, lastSelectedUpdate, activeCueCache, lastActiveUpdate,
                   nextCueCache, lastNextUpdate, cachedCues, lastCuesUpdate,
                   globalCueCache>>
    /\ UNCHANGED <<nonCacheVars, debounceVars>>

\* The wrapper's statements after "await this.client.getAllCues()".
StoreCues(call, cues) ==
    /\ cachedCues' = cues
    /\ lastCuesUpdate' = call.now
    /\ globalCueCache' = [cues |-> cues, lastUpdate |-> call.now]
    /\ lastDone' = Done(call, cues)

\* client.getAllCues resumed when the '/cueLists' query settles: cues, an
\* empty reply (the children of cue 1 are asked for), or a failure (the
\* catch block returns the "Error loading cues" list).
getAllCuesCatalogResume(n, outcome) ==
    \E call \in cueCalls :
        /\ call.n = n /\ call.stage = "catalog"
        /\ IF outcome = "empty"
           THEN /\ cueCalls' = (cueCalls \ {call})
                                  \cup {Query([call EXCEPT !.catalogEmpty = TRUE], "children")}
                /\ UNCHANGED <<cachedCues, lastCuesUpdate, globalCueCache, lastDone>>
           ELSE /\ cueCalls' = cueCalls \ {call}
                /\ StoreCues([call EXCEPT !.failed = (outcome = "error")],
                             NewCue(call.n, "list", FALSE))
        /\ UNCHANGED <<selectedCueCache, lastSelectedUpdate, activeCueCache, lastActiveUpdate,
                       nextCueCache, lastNextUpdate, cueCallCount,
                       cachedBeforeCommand>>
        /\ UNCHANGED <<nonCacheVars, debounceVars>>

\* client.getAllCues resumed when the '/cue_id/1/children' query settles.
getAllCuesChildrenResume(n, ok) ==
    \E call \in cueCalls :
        /\ call.n = n /\ call.stage = "children"
        /\ cueCalls' = cueCalls \ {call}
        /\ StoreCues([call EXCEPT !.failed = ~ok], NewCue(call.n, "list", FALSE))
        /\ UNCHANGED <<selectedCueCache, lastSelectedUpdate, activeCueCache, lastActiveUpdate,
                       nextCueCache, lastNextUpdate, cueCallCount,
                       cachedBeforeCommand>>
        /\ UNCHANGED <<nonCacheVars, debounceVars>>

\* QLabOSCClient.invalidateCache.
invalidateCache ==
    /\ selectedCueCache' = NoValue /\ lastSelectedUpdate' = 0
    /\ activeCueCache' = NoValue /\ lastActiveUpdate' = 0
    /\ nextCueCache' = NoValue /\ lastNextUpdate' = 0
    /\ UNCHANGED <<cachedCues, lastCuesUpdate, globalCueCache, cueCalls, cueCallCount,
                   lastDone, cachedBeforeCommand>>
    /\ UNCHANGED <<nonCacheVars, debounceVars>>

\* The clock readings at which the cached queries are observed.
CacheInstants ==
    {0, CacheTick, 2 * CacheTick, CacheLeap, CacheLeap + CacheTick}

\* Time passes between the events of the cached queries.
advanceCacheClock(t) ==
    /\ t > clock
    /\ clock' = t
    /\ UNCHANGED <<updateTimeout, refreshTimers, cycles, triggerCount, lastTrigger,
                   cycleLog, pushLog>>
    /\ UNCHANGED <<nonCacheVars, cacheVars>>

InitCache == OscIdle /\ PoolIdle /\ DebounceIdle /\ SelectIdle /\ CacheIdle /\ RouteIdle
    /\ ListIdle

\* The numbers calls are told apart by.
CueCallNumbers == 1..MaxCueCalls

NextCache ==
    \/ getSelectedCue
    \/ \E n \in CueCallNumbers, ok \in BOOLEAN, hasId \in BOOLEAN :
           getSelectedCueResume(n, ok, hasId)
    \/ getActiveCue
    \/ \E n \in CueCallNumbers, ok \in BOOLEAN : getActiveCueResume(n, ok)
    \/ getNextCue
    \/ \E n \in CueCallNumbers, ok \in BOOLEAN, hasId \in BOOLEAN :
           getNextCueSelectedResume(n, ok, hasId)
    \/ \E n \in CueCallNumbers, ok \in BOOLEAN : getNextCueListResume(n, ok)
    \/ getAllCues
    \/ \E n \in CueCallNumbers, outcome \in {"cues", "empty", "error"} :
           getAllCuesCatalogResume(n, outcome)
    \/ \E n \in CueCallNumbers, ok \in BOOLEAN : getAllCuesChildrenResume(n, ok)
    \/ invalidateCache
    \/ \E t \in CacheInstants : advanceCacheClock(t)

SpecCache == InitCache /\ [][NextCache]_vars

\* ------------------------------------------------ claims on the cue caches
\* The last call that returned found its cache younger than the TTL, the age
\* counted from the start of the call that fetched the value.
ServedFromCache ==
    lastDone.startState = "fresh"
    => lastDone.returned = lastDone.startValue /\ lastDone.queries = 0

C10_StaleFallback ==
    (lastDone.failed /\ lastDone.kind \in {"selected", "active", "next"})
    => /\ lastDone.failState = "young" => lastDone.returned = lastDone.failValue
       /\ lastDone.failState \in {"old", "absent"} => lastDone.returned.n = lastDone.n

\* ------------------------------------------ commands of the workspace client
WrapperCommands == {"play", "stop", "next", "previous", "panic", "reset"}

\* The commands whose method begins with this.client.invalidateCache().
InvalidatingCommands == {"play", "stop", "next", "previous"}

\* QLabClientWrapper.play / stop / next / previous / panic / reset: the first
\* four empty the cue caches, then each sends its message, which expects no
\* reply; the command has returned when the step ends.
WrapperCommandBody(cmd, sendOk) ==
    /\ PlainWrite(sendOk)
    /\ IF cmd \in InvalidatingCommands
       THEN /\ selectedCueCache' = NoValue /\ lastSelectedUpdate' = 0
            /\ activeCueCache' = NoValue /\ lastActiveUpdate' = 0
            /\ nextCueCache' = NoValue /\ lastNextUpdate' = 0
       ELSE UNCHANGED <<selectedCueCache, lastSelectedUpdate, activeCueCache,
                        lastActiveUpdate, nextCueCache, lastNextUpdate>>
    /\ cachedBeforeCommand' =
          IF sendOk
          THEN CachesAtReturn(selectedCueCache', activeCueCache', nextCueCache')
          ELSE cachedBeforeCommand
    /\ UNCHANGED <<cachedCues, lastCuesUpdate, globalCueCache, cueCalls, cueCallCount,
                   lastDone>>
    /\ UNCHANGED <<callbackIdCounter, globalOSCCallbacks, calls, wire,
                   replyLog, sendAfterReply>>
    /\ UNCHANGED <<poolVars, selectVars, portVars>>

\* A command method of the wrapper called on its own.
wrapperCommand(cmd, sendOk) ==
    /\ plainSends < MaxPlainSends
    /\ WrapperCommandBody(cmd, sendOk)
    /\ UNCHANGED <<errorCount, debounceVars, routeVars, listVars>>

\* Commands issued so far: messages written and cue selections asked for.
CommandsSoFar == plainSends + Len(skipLog)

\* skipToCue as the one command of a behaviour.
skipToCueOnce(cueId, sendOk) ==
    /\ CommandsSoFar < MaxPlainSends
    /\ skipToCue(cueId, sendOk)

NextCommand ==
    \/ getSelectedCue
    \/ \E n \in CueCallNumbers, ok \in BOOLEAN, hasId \in BOOLEAN :
           getSelectedCueResume(n, ok, hasId)
    \/ getActiveCue
    \/ \E n \in CueCallNumbers, ok \in BOOLEAN : getActiveCueResume(n, ok)
    \/ getNextCue
    \/ \E n \in CueCallNumbers, ok \in BOOLEAN, hasId \in BOOLEAN :
           getNextCueSelectedResume(n, ok, hasId)
    \/ \E n \in CueCallNumbers, ok \in BOOLEAN : getNextCueListResume(n, ok)
    \/ \E t \in CacheInstants : advanceCacheClock(t)
    \/ \E cmd \in WrapperCommands, sendOk \in BOOLEAN : wrapperCommand(cmd, sendOk)
    \/ \E cueId \in CueIds, sendOk \in BOOLEAN : skipToCueOnce(cueId, sendOk)

SpecCommand == InitCache /\ [][NextCommand]_vars

\* C11 as stated.  The first getSelectedCue / getActiveCue / getNextCue after
\* a command that was sent does not serve, without a device query, the value
\* its cache held when the command returned.
C11_CommandInvalidates ==
    lastDone.preCommand.tag # "null"
    => ~(lastDone.queries = 0 /\ lastDone.returned = lastDone.preCommand)

\* ------------------------------------------ loss of the transport connection
MaxPorts == 2

\* The 'error' and 'close' handlers initializeOSC puts on the global port:
\* 'error' logs; 'close' logs and sets globalOSCPort = null.  Replies still
\* on their way are lost with the connection.
portEvent(kind) ==
    /\ globalOSCPort # 0
    /\ IF kind = "close"
       THEN /\ closedPorts' = closedPorts \cup {globalOSCPort}
            /\ globalOSCPort' = 0
            /\ wire' = <<>>
       ELSE UNCHANGED <<closedPorts, globalOSCPort, wire>>
    /\ UNCHANGED <<oscPort, portCount, wroteToClosed>>
    /\ UNCHANGED <<callbackIdCounter, globalOSCCallbacks, calls, errorCount, replyLog,
                   plainSends, sendAfterReply>>
    /\ UNCHANGED nonOscVars

\* new QLabOSCClient(host, port) in slot cl: initializeOSC opens a port when
\* globalOSCPort is null and takes the global port as this.oscPort.
constructClient(cl) ==
    /\ portCount < MaxPorts
    /\ globalOSCPort = 0
    /\ portCount' = portCount + 1
    /\ globalOSCPort' = portCount + 1
    /\ oscPort' = [oscPort EXCEPT ![cl] = portCount + 1]
    /\ callbackIdCounter' = [callbackIdCounter EXCEPT ![cl] = 0]
    /\ UNCHANGED <<closedPorts, wroteToClosed>>
    /\ UNCHANGED <<globalOSCCallbacks, calls, wire, errorCount, replyLog, plainSends,
                   sendAfterReply>>
    /\ UNCHANGED nonOscVars

NextTransport ==
    \/ \E cl \in OscClients, sendOk \in BOOLEAN : sendOSCMessageReply(cl, sendOk)
    \/ \E cl \in OscClients, sendOk \in BOOLEAN : sendOSCMessagePlain(cl, sendOk)
    \/ \E c \in 1..MaxCalls : callTimeout(c)
    \/ \E ok \in BOOLEAN : handleReply(ok)
    \/ \E kind \in {"error", "close"} : portEvent(kind)
    \/ \E cl \in OscClients : constructClient(cl)

SpecTransport == InitOSC /\ [][NextTransport]_vars

\* C12 as stated.  Once the port a call was written to has raised 'close',
\* the call is no longer pending and no longer in the pending queue.
C12_ConnectionLossRejects ==
    \A c \in 1..Len(calls) :
        (calls[c].written /\ calls[c].port \in closedPorts)
        => /\ ~Pending(c)
           /\ \A i \in 1..Len(globalOSCCallbacks) : globalOSCCallbacks[i].call # c

\* C13 as stated.  No send is ever handed to a port object that was closed:
\* a send after the close goes to a newly opened connection.
C13_NoWriteToClosedPort == ~wroteToClosed

\* ------------------------------------------------------ the command routes
MaxRouteCalls == 2
COMMAND_UPDATE_DELAY_MS == 100

\* The routes' test without its look at clientData.workspaceId.
NotRegistered(s) == clientConnections[s] = 0

\* if (!clientData || !clientData.workspaceId)
NotAttached(s) ==
    \/ clientConnections[s] = 0
    \/ Falsy(clientObjs[clientConnections[s]].workspaceId)

\* getWorkspaceClient(clientData.workspaceId) returns null.
ConnectionLost(s) == ~workspacePool[clientObjs[clientConnections[s]].workspaceId].present

\* A request answered by an early return: nothing but the response happens.
Refuse(s, route, error) ==
    /\ Respond(s, route, FALSE, error)
    /\ UNCHANGED <<oscVars, poolVars, debounceVars, selectVars, cacheVars, portVars>>
    /\ UNCHANGED <<commandsSent, totalLatencyMs, delayTimers, lastCommandAt, listVars>>

\* setTimeout(() => { updateAllClientsCueInfo(); }, 100) after a success.
ScheduleUpdate(success) ==
    IF success
    THEN /\ delayTimers' = delayTimers
                \cup {[id |-> routeCalls + 1, due |-> clock + COMMAND_UPDATE_DELAY_MS]}
         /\ lastCommandAt' = clock
    ELSE UNCHANGED <<delayTimers, lastCommandAt>>

\* POST /api/command/:command.  The command's send expects no reply, so the
\* handler runs to its response in one step and the latency it measures is 0.
apiCommand(s, cmd, sendOk) ==
    /\ routeCalls < MaxRouteCalls
    /\ IF NotAttached(s)
       THEN Refuse(s, "command", "Not connected to any QLab instance")
       ELSE IF ConnectionLost(s)
       THEN Refuse(s, "command", "Workspace connection lost")
       ELSE /\ WrapperCommandBody(cmd, sendOk)
            /\ commandsSent' = commandsSent + 1
            /\ totalLatencyMs' = totalLatencyMs + 0
            /\ errorCount' = IF sendOk THEN errorCount ELSE errorCount + 1
            /\ ScheduleUpdate(sendOk)
            /\ Respond(s, "command", sendOk, "none")
            /\ UNCHANGED <<debounceVars, listVars>>

\* POST /api/skip with a cue id in the body.
apiSkip(s, cueId, sendOk) ==
    /\ routeCalls < MaxRouteCalls
    /\ Len(skipLog) < MaxSkips
    /\ IF NotAttached(s)
       THEN Refuse(s, "skip", "Not connected")
       ELSE IF ConnectionLost(s)
       THEN Refuse(s, "skip", "Workspace connection lost")
       ELSE /\ SkipToCueBody(cueId, sendOk)
            /\ ScheduleUpdate(RapidDuplicate(cueId, clock) \/ sendOk)
            /\ Respond(s, "skip", RapidDuplicate(cueId, clock) \/ sendOk, "none")
            /\ UNCHANGED <<errorCount, commandsSent, totalLatencyMs, debounceVars, listVars>>

\* The callback of the 100 ms timer: updateAllClientsCueInfo().
commandDelayFires(id) ==
    /\ \E t \in delayTimers : t.id = id /\ t.due <= clock
    /\ delayTimers' = {t \in delayTimers : t.id # id}
    /\ RestartDebounce
    /\ UNCHANGED <<clock, cycles, cycleLog, pushLog>>
    /\ UNCHANGED <<commandsSent, totalLatencyMs, routeCalls, lastResponse, lastCommandAt>>
    /\ UNCHANGED <<oscVars, poolVars, selectVars, cacheVars, portVars, listVars>>

InitRoutes ==
    /\ OscIdle
    /\ DebounceIdle
    /\ SelectIdle
    /\ CacheIdle
    /\ RouteIdle
    /\ ListIdle
    /\ \E K \in SUBSET ClientIds : \E A \in SUBSET K : RegistryOf(K, A)

NextRoutes ==
    \/ \E s \in ClientIds, cmd \in WrapperCommands, sendOk \in BOOLEAN :
           apiCommand(s, cmd, sendOk)
    \/ \E s \in ClientIds, cueId \in CueIds, sendOk \in BOOLEAN : apiSkip(s, cueId, sendOk)
    \/ \E id \in 1..MaxRouteCalls : commandDelayFires(id)
    \/ \E id \in 1..MaxTriggers : refreshTimerFires(id)
    \/ \E id \in 1..MaxTriggers, outcome \in {"ok", "thrown"} :
          refreshCycleStep(id, outcome)
    \/ advanceClock

SpecRoutes == InitRoutes /\ [][NextRoutes]_vars

\* ------------------------------------------------- claims on the routes
\* The 'cueInfo' messages emitted to session s.
Pushes(s) == Cardinality({i \in 1..Len(pushLog) : pushLog[i].to = s})

\* Session s is registered and attached to a workspace that has a poolEntry.
AttachedSession(s) ==
    /\ clientConnections[s] # 0
    /\ clientObjs[clientConnections[s]].workspaceId # Null
    /\ workspacePool[clientObjs[clientConnections[s]].workspaceId].present

\* One request succeeded so far, so one trigger of the dispatcher is pending
\* or was made.
OneSuccess == Cardinality(delayTimers) + triggerCount = 1

\* C14 as stated.  After one successful command and no other trigger, every
\* attached session has its one 'cueInfo' push by the end of the debounce
\* window that follows the command, and an unattached session gets none.
C14_OnePushInWindow ==
    OneSuccess =>
        \A s \in ClientIds :
            /\ Pushes(s) <= 1
            /\ ~AttachedSession(s) => Pushes(s) = 0
            /\ (AttachedSession(s) /\ clock - lastCommandAt > UPDATE_DEBOUNCE_MS)
               => Pushes(s) = 1

\* C14 amended.  After one successful command and no other trigger, every
\* attached session is sent exactly one 'cueInfo' push by the refresh cycle
\* the command starts, an unattached session none; the push is emitted no
\* sooner than the 100 ms delay plus the 500 ms debounce window after the
\* command, when that session's queries have settled.
C14_OnePushAfterDebounce ==
    OneSuccess =>
        /\ \A s \in ClientIds :
              /\ Pushes(s) <= 1
              /\ ~AttachedSession(s) => Pushes(s) = 0
              /\ (AttachedSession(s) /\ cycleLog # <<>> /\ cycles = {}) => Pushes(s) = 1
        /\ \A i \in 1..Len(pushLog) :
              pushLog[i].at - lastCommandAt >= COMMAND_UPDATE_DELAY_MS + UPDATE_DEBOUNCE_MS

\* The cycle of the one command has ended and both sessions got their push.
C14_Witness ==
    /\ OneSuccess
    /\ cycleLog # <<>> /\ cycles = {}
    /\ \A s \in ClientIds : AttachedSession(s) /\ Pushes(s) = 1

\* --------------------------------------------- claims on attach and detach
\* The pool entries whose attached set holds session s.
EntriesHolding(s) == {w \in PoolKeys : workspacePool[w].present /\ s \in workspacePool[w].clients}

\* C15.  A session id is in the attached set of at most one PoolEntry at any
\* time: a connect request of a session attached to A detaches it from A
\* before attaching it to B, also when two of its connect requests overlap.
C15_AtMostOneWorkspace == \A s \in ClientIds : Cardinality(EntriesHolding(s)) <= 1

ConnectRoutes == {"direct", "instance", "workspace"}

\* C16.  An attach whose Protocol Client fails to initialize is answered with
\* a failure and leaves the pool as it was: no entry is created for the
\* workspace id, no refCount and no attached set changes, and the session
\* stays unattached.
C16_FailedAttachChangesNothing ==
    [][(/\ lastResponse'.n # lastResponse.n
        /\ lastResponse'.route \in ConnectRoutes
        /\ ~lastResponse'.success)
       => /\ workspacePool' = workspacePool
          /\ clientObjs' = clientObjs]_vars

\* POST /api/connect_direct was answered with a failure: workspace "default"
\* has no entry and no client, and the session is attached to nothing.
C16_Witness ==
    /\ lastResponse.route = "direct"
    /\ ~lastResponse.success
    /\ ~workspacePool["default"].present /\ liveClients["default"] = 0
    /\ AttachedTo(lastResponse.client) = Null

\* Session s is unknown to the registry or attached to no workspace.
Unattached(s) ==
    \/ clientConnections[s] = 0
    \/ clientObjs[clientConnections[s]].workspaceId = Null

NotConnectedErrors == {"Not connected to any QLab instance", "Not connected"}

\* C17.  A command or cue-selection request of a session that is unknown or
\* attached to no workspace is answered with a failure saying it is not
\* connected; the step sends nothing to the device and leaves the performance
\* counters, the pool, the selection memory and every timer as they were.
C17_UnattachedRequestRefused ==
    [][(/\ lastResponse'.n # lastResponse.n
        /\ lastResponse'.route \in {"command", "skip"}
        /\ Unattached(lastResponse'.client))
       => /\ ~lastResponse'.success
          /\ lastResponse'.error \in NotConnectedErrors
          /\ UNCHANGED <<plainSends, wire, calls, globalOSCCallbacks>>
          /\ UNCHANGED <<commandsSent, totalLatencyMs, errorCount>>
          /\ UNCHANGED poolVars
          /\ UNCHANGED <<updateTimeout, refreshTimers, delayTimers, triggerCount>>
          /\ UNCHANGED selectVars]_vars

\* A command of an unknown session and a cue selection of a registered but
\* unattached one were both answered.
C17_Witness ==
    /\ lastResponse.n = 2
    /\ lastResponse.route = "skip"
    /\ lastResponse.error = "Not connected"
    /\ clientConnections[lastResponse.client] # 0
    /\ Unattached(lastResponse.client)
    /\ \E s \in ClientIds : clientConnections[s] = 0
    /\ commandsSent = 0 /\ plainSends = 0 /\ delayTimers = {}

\* --------------------------------------------------------------- discovery
MaxResponders == 2
MaxDiscoveries == 2

\* The services a Bonjour browse for type 'qlab' can report.
Services == {[name |-> "QLab A", ip |-> "10.0.0.5", port |-> 53000],
             [name |-> "QLab B", ip |-> "10.0.0.6", port |-> 53535]}

\* { name: "QLab (localhost)", ip: "127.0.0.1", port: 53000 }
FallbackInstance == [name |-> "QLab (localhost)", ip |-> "127.0.0.1", port |-> 53000]

\* The window's answer with the fallback entry added to the responders.
WindowResultWithFallback(found) == Append(found, FallbackInstance)

\* if (foundInstances.length > 0) ... else the localhost fallback.
WindowResult(found) == IF Len(found) > 0 THEN found ELSE <<FallbackInstance>>

\* discoverQLabInstances() up to its setTimeout.  loadOk = FALSE: loading or
\* constructing the browser throws, the catch resolves with an empty list.
\* foundInstances is local to a call, so calls are taken one at a time.
discoverQLabInstances(loadOk) ==
    /\ discovery.pc # "browsing"
    /\ discovery.calls < MaxDiscoveries
    /\ IF loadOk
       THEN /\ foundInstances' = <<>>
            /\ discovery' = [discovery EXCEPT !.pc = "browsing", !.calls = @ + 1,
                                              !.result = <<>>, !.error = FALSE,
                                              !.viaWindow = FALSE, !.seen = <<>>,
                                              !.errors = 0]
            /\ UNCHANGED discoveredInstances
       ELSE /\ discoveredInstances' = <<>>
            /\ foundInstances' = <<>>
            /\ discovery' = [discovery EXCEPT !.pc = "resolved", !.calls = @ + 1,
                                              !.result = <<>>, !.error = TRUE,
                                              !.viaWindow = FALSE, !.seen = <<>>,
                                              !.errors = 0]
    /\ UNCHANGED <<lookupVars, nonListVars>>

\* browser.on('up', ...): foundInstances.push({ name, ip, port, hostname }).
browserUp(service) ==
    /\ discovery.pc = "browsing"
    /\ Len(foundInstances) < MaxResponders
    /\ foundInstances' = Append(foundInstances, service)
    /\ discovery' = [discovery EXCEPT !.seen = Append(@, service)]
    /\ UNCHANGED <<discoveredInstances, lookupVars, nonListVars>>

\* browser.on('error', ...): logged, nothing else.
browserError ==
    /\ discovery.pc = "browsing"
    /\ discovery.errors = 0
    /\ discovery' = [discovery EXCEPT !.errors = 1]
    /\ UNCHANGED <<discoveredInstances, foundInstances, lookupVars, nonListVars>>

\* The 2000 ms timer: browser.stop(), then resolve with the responders or
\* with the fallback.
discoveryWindowElapses ==
    /\ discovery.pc = "browsing"
    /\ discoveredInstances' = WindowResult(foundInstances)
    /\ discovery' = [discovery EXCEPT !.pc = "resolved", !.viaWindow = TRUE,
                                      !.result = WindowResult(foundInstances)]
    /\ UNCHANGED <<foundInstances, lookupVars, nonListVars>>

InitDiscovery ==
    OscIdle /\ PoolIdle /\ DebounceIdle /\ SelectIdle /\ CacheIdle /\ RouteIdle
    /\ ListIdle

NextDiscovery ==
    \/ \E loadOk \in BOOLEAN : discoverQLabInstances(loadOk)
    \/ \E service \in Services : browserUp(service)
    \/ browserError
    \/ discoveryWindowElapses

SpecDiscovery == InitDiscovery /\ [][NextDiscovery]_vars

\* C18.  A discovery whose window elapsed has resolved with exactly the
\* fallback instance 127.0.0.1:53000 when no responder was seen, and with
\* exactly the responders seen, in order and without the fallback, when there
\* was one; a discovery that ended has resolved, also when the browser could
\* not be started or reported an error: the promise has no reject path.
C18_DiscoveryResult ==
    /\ discovery.pc \in {"idle", "browsing", "resolved"}
    /\ (discovery.pc = "resolved" /\ discovery.viaWindow)
       => /\ ~discovery.error
          /\ discovery.seen = <<>> => discovery.result = <<FallbackInstance>>
          /\ discovery.seen # <<>>
             => /\ discovery.result = discovery.seen
                /\ \A i \in 1..Len(discovery.result) :
                      discovery.result[i] # FallbackInstance

\* A second discovery saw nobody and resolved with the fallback, after a
\* browser error.
C18_Witness ==
    /\ discovery.pc = "resolved" /\ discovery.viaWindow
    /\ discovery.calls = 2
    /\ discovery.seen = <<>>
    /\ discovery.errors = 1
    /\ discovery.result = <<FallbackInstance>>

\* ------------------------------------------------- getNextCue's list lookup
MaxCueId == 4
MaxListLen == 3

\* Sequences of distinct cues of a cue list (uniqueIDs are unique).
RECURSIVE CueSeqs(_)
CueSeqs(n) ==
    IF n = 0 THEN {<<>>}
    ELSE {Append(l, [uniqueID |-> k]) :
             l \in {m \in CueSeqs(n - 1) : Len(m) = n - 1},
             k \in 1..MaxCueId} \cup CueSeqs(n - 1)

DistinctCues(l) == \A i, j \in 1..Len(l) : l[i].uniqueID = l[j].uniqueID => i = j

\* The '/cueLists' replies: no list at all, or a main list of cues.
CueListReplies ==
    {<<>>} \cup {<<[cues |-> l]>> : l \in {m \in CueSeqs(MaxListLen) : DistinctCues(m)}}

\* What getSelectedCue hands to getNextCue: a cue with an id, or a
\* placeholder without one (id 0).
SelectedCues ==
    {[tag |-> "cue", id |-> k, number |-> "n", name |-> "cue"] : k \in 1..MaxCueId}
        \cup {[tag |-> "placeholder", id |-> 0, number |-> "--", name |-> "No selection"]}

noCue == [tag |-> "placeholder", id |-> 0, number |-> "--", name |-> "No selection"]
endCue == [tag |-> "placeholder", id |-> 0, number |-> "--", name |-> "End of list"]

\* mainCueList.cues.findIndex(cue => cue.uniqueID === selectedCue.id), from 1;
\* 0 when no cue matches.
findIndex(list, id) ==
    IF \E i \in 1..Len(list) : list[i].uniqueID = id
    THEN CHOOSE i \in 1..Len(list) :
             /\ list[i].uniqueID = id
             /\ \A j \in 1..(i - 1) : list[j].uniqueID # id
    ELSE 0

\* The test of the selected cue with its look at the id left out.
NeverMissing(sel) == FALSE

\* !selectedCue || !selectedCue.id
SelectionMissing(sel) == sel.id = 0

\* getNextCue after its two awaits, given the selected cue and the reply.
NextCueFrom(sel, reply) ==
    IF SelectionMissing(sel) THEN noCue
    ELSE IF Len(reply) > 0
            /\ findIndex(reply[1].cues, sel.id) # 0
            /\ findIndex(reply[1].cues, sel.id) < Len(reply[1].cues)
    THEN [tag |-> "cue",
          id |-> reply[1].cues[findIndex(reply[1].cues, sel.id) + 1].uniqueID,
          number |-> "n", name |-> "cue"]
    ELSE endCue

\* getNextCue on a cache miss whose two queries were answered.
getNextCueLookup ==
    /\ nextCue = NoCue
    /\ nextCue' = NextCueFrom(selectedCue, cueLists)
    /\ UNCHANGED <<selectedCue, cueLists, replyFormat, cueTree, flatCues>>
    /\ UNCHANGED <<discoveryVars, nonListVars>>

InitNextCue ==
    OscIdle /\ PoolIdle /\ DebounceIdle /\ SelectIdle /\ CacheIdle /\ RouteIdle
    /\ DiscoveryIdle /\ AllCuesIdle /\ ExitIdle /\ InboundIdle /\ ClientIdle
    /\ LauncherIdle
    /\ nextCue = NoCue
    /\ selectedCue \in SelectedCues
    /\ cueLists \in CueListReplies

NextNextCue == getNextCueLookup

SpecNextCue == InitNextCue /\ [][NextNextCue]_vars

\* The main list read by the lookup, empty when the reply held no list.
MainList == IF Len(cueLists) > 0 THEN cueLists[1].cues ELSE <<>>

\* The selected cue stands at a position of the main list that has a
\* successor, and nextCue is that successor.
IsSuccessorOfSelected ==
    \E i \in 1..(Len(MainList) - 1) :
        /\ MainList[i].uniqueID = selectedCue.id
        /\ nextCue.tag = "cue" /\ nextCue.id = MainList[i + 1].uniqueID

SelectedHasSuccessor ==
    \E i \in 1..(Len(MainList) - 1) : MainList[i].uniqueID = selectedCue.id

\* C19 as stated.  getNextCue returns the cue right after the selected cue in
\* the main list, and the placeholder '--' / 'End of list' when the selected
\* cue is last, not in the list, or when no cue is selected.
C19_NextOrEndOfList ==
    nextCue # NoCue =>
        IF selectedCue.id # 0 /\ SelectedHasSuccessor
        THEN IsSuccessorOfSelected
        ELSE nextCue.number = "--" /\ nextCue.name = "End of list"

\* C19 amended.  On a cache miss with both queries answered, getNextCue
\* returns the cue right after the selected cue in the main list; the
\* placeholder '--' / 'End of list' when the selected cue is the last of the
\* list, is not among its top-level cues, or the reply holds no list; and the
\* placeholder '--' / 'No selection' when no cue is selected.
C19_NextOrPlaceholder ==
    nextCue # NoCue =>
        IF selectedCue.id = 0
        THEN nextCue.number = "--" /\ nextCue.name = "No selection"
        ELSE IF SelectedHasSuccessor
        THEN IsSuccessorOfSelected
        ELSE nextCue.number = "--" /\ nextCue.name = "End of list"

\* The selected cue is the last of a list of three: 'End of list'.
C19_Witness ==
    /\ Len(MainList) = 3
    /\ MainList[3].uniqueID = selectedCue.id
    /\ nextCue.name = "End of list"

\* ---------------------------------------------------- getAllCues' flattening
MaxTreeNodes == 5

\* The nested cue arrays of exactly n cues: a first cue with its `cues`
\* array, then its later siblings.
RECURSIVE CueForests(_)
CueForests(n) ==
    IF n = 0 THEN {<<>>}
    ELSE UNION {{<<[cues |-> c]>> \o r : c \in CueForests(k - 1), r \in CueForests(n - k)} :
                   k \in 1..n}

\* Every cue gets a uniqueID of its own: its path of 1-based positions.
RECURSIVE WithUniqueIDs(_, _)
WithUniqueIDs(forest, path) ==
    [i \in 1..Len(forest) |->
        [uniqueID |-> Append(path, i),
         cues |-> WithUniqueIDs(forest[i].cues, Append(path, i))]]

CueTrees == {WithUniqueIDs(f, <<>>) : f \in UNION {CueForests(n) : n \in 0..MaxTreeNodes}}

\* The shapes of a reply: its first item is a "Cue List" container, its items
\* are cue lists with a `cues` array each, or it is an array of cues.
ReplyFormats == {"container", "lists", "direct"}

\* The entry pushed for a cue with its depth forgotten.
EntryAtDepthZero(cue, i, depth) == [id |-> cue.uniqueID, originalIndex |-> i - 1, depth |-> 0]

\* cues.push({ id, number, name, originalName, originalIndex: i, depth }),
\* i counted from 1 here.
Entry(cue, i, depth) == [id |-> cue.uniqueID, originalIndex |-> i - 1, depth |-> depth]

RECURSIVE processCueList(_, _, _)
RECURSIVE processFrom(_, _, _, _)
\* The loop of processCueList from position i on.
processFrom(cueList, i, out, depth) ==
    IF i > Len(cueList) THEN out
    ELSE LET pushed == Append(out, Entry(cueList[i], i, depth))
             after  == IF Len(cueList[i].cues) > 0
                       THEN processCueList(cueList[i].cues, pushed, depth + 1)
                       ELSE pushed
         IN  processFrom(cueList, i + 1, after, depth)

\* processCueList(cueList, cues, depth): the array `cues` afterwards.
processCueList(cueList, out, depth) == processFrom(cueList, 1, out, depth)

\* result.forEach(cueList => this.processCueList(cueList.cues, cues, 0))
RECURSIVE forEachCueList(_, _, _)
forEachCueList(result, l, out) ==
    IF l > Len(result) THEN out
    ELSE forEachCueList(result, l + 1, processCueList(result[l].cues, out, 0))

\* The placeholder returned when no cue was collected.
NoCuesAvailable == [id |-> <<>>, originalIndex |-> 0, depth |-> 0]

\* getAllCues from `const cues = []` to its return, for a reply `result`.
CollectCues(format, result) ==
    LET out == IF format = "lists" THEN forEachCueList(result, 1, <<>>)
               ELSE processCueList(result, <<>>, 0)
    IN  IF Len(out) = 0 THEN <<NoCuesAvailable>> ELSE out

\* QLabOSCClient.getAllCues once its reply has arrived.
getAllCuesCollect ==
    /\ flatCues = <<>>
    /\ flatCues' = CollectCues(replyFormat, cueTree)
    /\ UNCHANGED <<selectedCue, cueLists, nextCue, replyFormat, cueTree>>
    /\ UNCHANGED <<discoveryVars, nonListVars>>

InitAllCues ==
    OscIdle /\ PoolIdle /\ DebounceIdle /\ SelectIdle /\ CacheIdle /\ RouteIdle
    /\ DiscoveryIdle /\ NextCueIdle /\ ExitIdle /\ InboundIdle /\ ClientIdle
    /\ LauncherIdle
    /\ flatCues = <<>>
    /\ cueTree \in CueTrees
    /\ replyFormat \in ReplyFormats
    /\ (replyFormat \in {"container", "lists"} => Len(cueTree) > 0)

NextAllCues == getAllCuesCollect

SpecAllCues == InitAllCues /\ [][NextAllCues]_vars

\* The uniqueIDs of a nested cue array.
RECURSIVE IdsOf(_)
IdsOf(forest) ==
    UNION {{forest[i].uniqueID} \cup IdsOf(forest[i].cues) : i \in 1..Len(forest)}

\* The length of the path of a top-level cue: the items of a "lists" reply
\* are the lists, their cues the top-level cues.
TopLevel == IF replyFormat = "lists" THEN 2 ELSE 1

\* The cues of the tree that getAllCues is to list.
TreeCues == {p \in IdsOf(cueTree) : Len(p) >= TopLevel}

IsPrefix(p, q) == Len(p) <= Len(q) /\ \A k \in 1..Len(p) : p[k] = q[k]

\* p comes before q in depth-first pre-order: an ancestor before its
\* descendants, otherwise by the first position where the paths differ.
PreOrderBefore(p, q) ==
    \/ IsPrefix(p, q) /\ Len(p) < Len(q)
    \/ \E k \in 1..Len(p) :
          /\ k <= Len(q)
          /\ \A m \in 1..(k - 1) : p[m] = q[m]
          /\ p[k] < q[k]

\* C20.  The cues returned for a nested cue tree are its flattening in
\* depth-first pre-order: every cue appears exactly once, a group is followed
\* at once by all its descendants before its next sibling, depth is 0 for
\* top-level cues and the parent's depth plus 1 for children, and
\* originalIndex is the cue's position in its own sibling list.  A tree with
\* no cue gives the one 'No cues available' placeholder.
C20_FlattenPreOrder ==
    flatCues # <<>> =>
        IF TreeCues = {} THEN flatCues = <<NoCuesAvailable>>
        ELSE /\ {flatCues[i].id : i \in 1..Len(flatCues)} = TreeCues
             /\ Len(flatCues) = Cardinality(TreeCues)
             /\ \A i, j \in 1..Len(flatCues) :
                   i < j => PreOrderBefore(flatCues[i].id, flatCues[j].id)
             /\ \A i, j \in 1..Len(flatCues) :
                   (i < j /\ IsPrefix(flatCues[i].id, flatCues[j].id))
                   => \A k \in i..j : IsPrefix(flatCues[i].id, flatCues[k].id)
             /\ \A i \in 1..Len(flatCues) :
                   /\ flatCues[i].depth = Len(flatCues[i].id) - TopLevel
                   /\ flatCues[i].originalIndex
                          = flatCues[i].id[Len(flatCues[i].id)] - 1

\* A group with a nested group was flattened, and a sibling follows it.
C20_Witness ==
    /\ replyFormat = "direct"
    /\ Len(flatCues) = 5
    /\ flatCues[1].depth = 0 /\ flatCues[2].depth = 1 /\ flatCues[3].depth = 2
    /\ flatCues[4].depth = 1 /\ flatCues[4].originalIndex = 1
    /\ flatCues[5].depth = 0 /\ flatCues[5].originalIndex = 1

\* ---------------------------------------------------- claims on shutdown
\* C21.  Once gracefulShutdown has run, cleanup was invoked on the client of
\* every PoolEntry there was, and workspacePool and clientConnections are
\* both empty, also when the cleanup of an entry threw.
C21_ShutdownReleasesAll ==
    shutdown.exited =>
        /\ shutdown.cleaned = shutdown.entries
        /\ \A w \in PoolKeys : ~workspacePool[w].present
        /\ \A s \in ClientIds : clientConnections[s] = 0

\* Shutdown met two entries and a registered session, and the cleanup of the
\* first entry threw.
C21_Witness ==
    /\ shutdown.exited
    /\ shutdown.entries = {"default", "wsA"}
    /\ shutdown.threw = {"default"}
    /\ clientObjs # <<>>

\* ------------------------------------------------------- inbound messages
MaxInbound == 3

\* The addresses of inbound messages.
InboundAddresses ==
    {"/reply/workspace/W/cueLists", "/reply/thump",
     "/update/workspace/W/cueList/L/playbackPosition", "/update/workspace/W/cueList/L",
     "/update/workspace/W/cue_id/C", "/workspace/W/update", "/update/workspace/W",
     "/thump", "/version"}

\* The string tests of the handler: address.startsWith('/reply'),
\* address.endsWith('update'), address.includes(test) for the other tests.
Matches(address, test) ==
    address \in
      CASE test = "startsWith /reply" ->
               {"/reply/workspace/W/cueLists", "/reply/thump"}
        [] test = "update" ->
               {"/update/workspace/W/cueList/L/playbackPosition",
                "/update/workspace/W/cueList/L", "/update/workspace/W/cue_id/C",
                "/workspace/W/update", "/update/workspace/W"}
        [] test = "playbackPosition" ->
               {"/update/workspace/W/cueList/L/playbackPosition"}
        [] test = "cueList" ->
               {"/reply/workspace/W/cueLists",
                "/update/workspace/W/cueList/L/playbackPosition",
                "/update/workspace/W/cueList/L"}
        [] test = "cue_id" -> {"/update/workspace/W/cue_id/C"}
        [] test = "endsWith update" -> {"/workspace/W/update"}
        [] test = "thump" -> {"/reply/thump", "/thump"}

\* The first argument of a reply: a JSON envelope { status, data } whose data
\* is a value, null or left out; text that is no JSON; or no argument.
Envelopes ==
    {[status |-> "ok", data |-> d] : d \in {"value", "null", "absent"}}
        \cup {[status |-> "error", data |-> d] : d \in {"value", "absent"}}
        \cup {[status |-> "unparsable", data |-> "absent"],
              [status |-> "noArgs", data |-> "absent"]}

InboundMessages ==
    {[address |-> a, status |-> e.status, data |-> e.data] :
        a \in {b \in InboundAddresses : Matches(b, "startsWith /reply")},
        e \in Envelopes}
    \cup {[address |-> a, status |-> "noArgs", data |-> "absent"] :
             a \in {b \in InboundAddresses : ~Matches(b, "startsWith /reply")}}

\* parsedData after the envelope was read: jsonData.data for status 'ok'
\* (undefined when left out), null for another status, the argument values
\* when the text is no JSON or there is no argument.
ParsedData(msg) ==
    CASE msg.status = "ok" -> msg.data
      [] msg.status = "error" -> "null"
      [] OTHER -> "argValues"

\* The tests of the 'update' branch, the one on 'cue_id' left out.
TriggersRefreshWithoutCueId(address) ==
    \/ Matches(address, "playbackPosition")
    \/ Matches(address, "cueList")
    \/ Matches(address, "endsWith update")

\* The tests of the 'update' branch that call updateAllClientsCueInfo().
TriggersRefresh(address) ==
    \/ Matches(address, "playbackPosition")
    \/ Matches(address, "cueList")
    \/ Matches(address, "cue_id")
    \/ Matches(address, "endsWith update")

\* handleGlobalOSCMessage(oscMessage).
handleGlobalOSCMessage(msg) ==
    /\ lastInbound.n < MaxInbound
    /\ lastInbound' = [n |-> lastInbound.n + 1, msg |-> msg,
                       passed |-> IF Matches(msg.address, "startsWith /reply")
                                  THEN ParsedData(msg) ELSE "none"]
    /\ IF Matches(msg.address, "startsWith /reply")
       THEN /\ ReplyBranch(ParsedData(msg) # "null")
            /\ UNCHANGED debounceVars
       ELSE IF Matches(msg.address, "update") /\ TriggersRefresh(msg.address)
       THEN /\ triggerCount < MaxTriggers
            /\ RestartDebounce
            /\ UNCHANGED <<clock, cycles, cycleLog, pushLog>>
            /\ UNCHANGED <<globalOSCCallbacks, calls, wire, replyLog, errorCount>>
       ELSE /\ UNCHANGED debounceVars
            /\ UNCHANGED <<globalOSCCallbacks, calls, wire, replyLog, errorCount>>
    /\ UNCHANGED <<callbackIdCounter, plainSends, sendAfterReply>>
    /\ UNCHANGED <<poolVars, selectVars, cacheVars, portVars, routeVars>>
    /\ UNCHANGED <<discoveryVars, lookupVars, exitVars, clientVars, launcherVars>>

\* One client sends; the messages of the device come in any order.
NextInbound ==
    \/ \E sendOk \in BOOLEAN : sendOSCMessageReply(1, sendOk)
    \/ \E c \in 1..MaxCalls : callTimeout(c)
    \/ \E msg \in InboundMessages : handleGlobalOSCMessage(msg)

SpecInbound == InitOSC /\ [][NextInbound]_vars

\* ---------------------------------------------- claims on inbound messages
\* The step handles an inbound message.
MessageHandled == lastInbound'.n # lastInbound.n

\* The step handles a '/reply' message with a { status, data } envelope while
\* a PendingCall is queued, the oldest of them still pending.
ReplyToOldestPending ==
    /\ MessageHandled
    /\ Matches(lastInbound'.msg.address, "startsWith /reply")
    /\ lastInbound'.msg.status \in {"ok", "error"}
    /\ Len(globalOSCCallbacks) > 0
    /\ Pending(globalOSCCallbacks[1].call)

\* C22.  Reply status routing: a '/reply' whose envelope has status 'ok'
\* resolves the oldest pending call with the envelope's data, whatever the
\* data (null and absent included); a '/reply' with another status rejects
\* it; either way exactly that one call leaves the queue.
C22_ReplyStatusRouting ==
    [][ReplyToOldestPending
       => /\ globalOSCCallbacks' = Tail(globalOSCCallbacks)
          /\ \A c \in 1..Len(calls) :
                c # globalOSCCallbacks[1].call => calls'[c] = calls[c]
          /\ calls'[globalOSCCallbacks[1].call].state
                = IF lastInbound'.msg.status = "ok" THEN "resolved" ELSE "rejected"
          /\ lastInbound'.msg.status = "ok"
                => lastInbound'.passed = lastInbound'.msg.data]_vars

\* Call c has an entry in the queue of PendingCalls.
InQueue(m, c) == \E i \in 1..Len(m) : m[i].call = c

\* The step matches call c to an inbound reply.
MatchedToReply(c) ==
    /\ Len(replyLog') = Len(replyLog) + 1
    /\ replyLog'[Len(replyLog')].settled = c

\* The step is the deadline of call c.
DeadlineElapses(c) == calls[c].timer = "armed" /\ calls'[c].timer = "fired"

\* C23.  A PendingCall is settled at most once and leaves the queue exactly
\* when it is matched to a reply or its deadline elapses; a call whose
\* deadline has fired is never resolved by a later reply, and one step (one
\* reply) settles at most one call.
C23_SettledOnceLeavesOnce ==
    [][/\ \A c \in 1..Len(calls) :
             /\ ~Pending(c) => calls'[c].state = calls[c].state
             /\ (InQueue(globalOSCCallbacks, c) /\ ~InQueue(globalOSCCallbacks', c))
                => (MatchedToReply(c) \/ DeadlineElapses(c))
             /\ (MatchedToReply(c) \/ DeadlineElapses(c))
                => ~InQueue(globalOSCCallbacks', c)
             /\ calls[c].timer = "fired" => calls'[c].state # "resolved"
       /\ Cardinality({c \in 1..Len(calls) : calls'[c].state # calls[c].state}) <= 1
      ]_vars

\* An address signalling a state change of the device: it contains 'update'
\* together with playbackPosition, cueList or cue_id, or it ends in 'update';
\* it is no reply.
StateChange(address) ==
    /\ ~Matches(address, "startsWith /reply")
    /\ Matches(address, "update")
    /\ \/ Matches(address, "playbackPosition")
       \/ Matches(address, "cueList")
       \/ Matches(address, "cue_id")
       \/ Matches(address, "endsWith update")

\* The keep-alive address: it names 'thump' and is neither a reply nor an
\* update.
KeepAlive(address) ==
    /\ Matches(address, "thump")
    /\ ~Matches(address, "startsWith /reply")
    /\ ~Matches(address, "update")

\* C24.  An inbound state-change message schedules a debounced refresh (the
\* refresh timer is set anew, UPDATE_DEBOUNCE_MS from now) and removes,
\* resolves or rejects no PendingCall; a keep-alive message changes neither
\* the queue of PendingCalls nor the refresh timer.
C24_UpdatesScheduleRefreshOnly ==
    [][MessageHandled
       => /\ StateChange(lastInbound'.msg.address)
             => /\ triggerCount' = triggerCount + 1
                /\ updateTimeout' # 0
                /\ updateTimeout' # updateTimeout
                /\ \E t \in refreshTimers' :
                      t.id = updateTimeout' /\ t.due = clock + UPDATE_DEBOUNCE_MS
                /\ \A t \in refreshTimers' : t.id = updateTimeout'
                /\ UNCHANGED <<globalOSCCallbacks, calls>>
          /\ KeepAlive(lastInbound'.msg.address)
             => UNCHANGED <<globalOSCCallbacks, calls, updateTimeout, refreshTimers,
                            triggerCount>>]_vars

\* A state-change message about one cue was handled while a PendingCall was
\* queued: the call is still queued and pending, the refresh timer is set.
C24_Witness ==
    /\ lastInbound.n > 0
    /\ lastInbound.msg.address = "/update/workspace/W/cue_id/C"
    /\ Len(globalOSCCallbacks) > 0
    /\ Pending(globalOSCCallbacks[1].call)
    /\ updateTimeout # 0

\* C25.  A '/reply' message that arrives while no PendingCall is queued is
\* dropped: the queue, the calls, every cache, the performance counters
\* (commands sent, total latency, errors) and the refresh timer are as
\* before.
C25_UnsolicitedReplyDropped ==
    [][(/\ MessageHandled
        /\ Matches(lastInbound'.msg.address, "startsWith /reply")
        /\ Len(globalOSCCallbacks) = 0)
       => /\ UNCHANGED <<globalOSCCallbacks, calls>>
          /\ UNCHANGED cacheVars
          /\ UNCHANGED <<commandsSent, totalLatencyMs, errorCount>>
          /\ UNCHANGED <<updateTimeout, refreshTimers, triggerCount>>]_vars

\* A reply was handled that settled nothing: the call it answers had timed
\* out before, and the queue was empty.
C25_Witness ==
    /\ lastInbound.n > 0
    /\ Matches(lastInbound.msg.address, "startsWith /reply")
    /\ Len(replyLog) > 0
    /\ replyLog[Len(replyLog)].settled = 0
    /\ Len(globalOSCCallbacks) = 0
    /\ \E c \in 1..Len(calls) : calls[c].timer = "fired"

\* -------------------------------------------------- the Protocol Client
MaxActivations == 2
MaxCommands == 2

\* The ids setActiveWorkspace is called with: Null is the empty id.
WorkspaceIds == {Null, "wsA"}

\* The command methods of the client and the path each one sends.
CommandPaths ==
    [go |-> "go", stop |-> "stop", panic |-> "panic", reset |-> "reset",
     next |-> "select/next", previous |-> "select/previous"]
CommandNames == DOMAIN CommandPaths

BoolText(b) == IF b THEN "true" ELSE "false"

\* '/<path>', whatever the active workspace.
UnscopedAddress(path) == [workspace |-> Null, path |-> path]

\* this.currentWorkspaceId ? `/workspace/${this.currentWorkspaceId}/<path>`
\*                         : '/<path>'
CommandAddress(path) ==
    IF currentWorkspaceId # Null
    THEN [workspace |-> currentWorkspaceId, path |-> path]
    ELSE [workspace |-> Null, path |-> path]

\* go(), stop(), panic(), reset(), next(), previous(): one sendOSCMessage
\* with expectReply = false; true when it resolved, false from the catch.
clientCommand(name, sendOk) ==
    /\ lastCommand.n < MaxCommands
    /\ SendExpectingNone(1, sendOk)
    /\ lastCommand' =
          [n |-> lastCommand.n + 1, name |-> name,
           sent |-> <<[address |-> CommandAddress(CommandPaths[name]),
                       expectReply |-> FALSE, thrown |-> ~sendOk]>>,
           ret |-> BoolText(sendOk)]
    /\ UNCHANGED <<currentWorkspaceId, activation, workspacesCall, allCuesCall>>
    /\ UNCHANGED <<poolVars, debounceVars, selectVars, cacheVars, routeVars>>
    /\ UNCHANGED <<discoveryVars, lookupVars, exitVars, inboundVars, launcherVars>>

\* The three messages of setActiveWorkspace(workspaceId).
ConnectStep(ws) == [address |-> [workspace |-> ws, path |-> "connect"], expectReply |-> TRUE]
UpdatesStep == [address |-> [workspace |-> Null, path |-> "updates"], expectReply |-> FALSE]
CueListsStep(ws) == [address |-> [workspace |-> ws, path |-> "cueLists"], expectReply |-> TRUE]

\* A step of the call: the message and how its sendOSCMessage ended so far.
Step(message, outcome) ==
    [address |-> message.address, expectReply |-> message.expectReply,
     outcome |-> outcome]

\* The await of the last step returned or threw.
Completed(a, outcome) ==
    [a EXCEPT !.steps[Len(a.steps)].outcome = outcome, !.awaiting = 0]

\* The call sends its next message.
Sending(a, message, sendOk, c) ==
    [a EXCEPT !.steps = Append(a.steps, Step(message, IF ~sendOk THEN "failed"
                                                       ELSE IF message.expectReply
                                                       THEN "pending" ELSE "ok")),
              !.awaiting = IF sendOk /\ message.expectReply THEN c ELSE 0]

\* The catch block taken as a success.
CaughtReturnsTrue(a) == [a EXCEPT !.pc = "returned", !.ret = "true"]

\* catch (error) { ...; return false; }
Caught(a) == [a EXCEPT !.pc = "returned", !.ret = "false"]

\* return true;
ReturnsTrue(a) == [a EXCEPT !.pc = "returned", !.ret = "true"]

\* What leaves a step of setActiveWorkspace alone.
ActivationFrame ==
    /\ UNCHANGED <<lastCommand, workspacesCall, allCuesCall>>
    /\ UNCHANGED <<poolVars, debounceVars, selectVars, cacheVars, routeVars>>
    /\ UNCHANGED <<discoveryVars, lookupVars, exitVars, inboundVars, launcherVars>>

\* setActiveWorkspace(workspaceId) up to its first await: the id is stored;
\* with an id the connect message is sent, without one the call returns true.
setActiveWorkspace(ws, sendOk) ==
    /\ activation.pc \in {"idle", "returned"}
    /\ activation.n < MaxActivations
    /\ currentWorkspaceId' = ws
    /\ LET a == [pc |-> "connect", n |-> activation.n + 1, workspaceId |-> ws,
                 awaiting |-> 0, steps |-> <<>>, ret |-> "none"]
       IN  IF ws # Null
           THEN /\ SendExpectingReply(1, sendOk)
                /\ activation' =
                      LET sent == Sending(a, ConnectStep(ws), sendOk, Len(calls) + 1)
                      IN  IF sendOk THEN sent ELSE Caught(sent)
           ELSE /\ activation' = ReturnsTrue(a)
                /\ UNCHANGED <<oscVars, portVars>>
    /\ ActivationFrame

\* The await of the connect message ends: '/updates' 1 is sent, or the
\* rejection is caught.
connectSettled(sendOk) ==
    /\ activation.pc = "connect"
    /\ ~Pending(activation.awaiting)
    /\ IF calls[activation.awaiting].state = "resolved"
       THEN /\ SendExpectingNone(1, sendOk)
            /\ activation' =
                  LET sent == Sending(Completed(activation, "ok"), UpdatesStep, sendOk, 0)
                  IN  IF sendOk THEN [sent EXCEPT !.pc = "updates"] ELSE Caught(sent)
       ELSE /\ activation' = Caught(Completed(activation, "failed"))
            /\ UNCHANGED <<oscVars, portVars>>
    /\ UNCHANGED currentWorkspaceId
    /\ ActivationFrame

\* The await of '/updates' ends: the cue lists are requested.
updatesSettled(sendOk) ==
    /\ activation.pc = "updates"
    /\ SendExpectingReply(1, sendOk)
    /\ activation' =
          LET sent == Sending(activation, CueListsStep(activation.workspaceId),
                              sendOk, Len(calls) + 1)
          IN  IF sendOk THEN [sent EXCEPT !.pc = "cueLists"] ELSE Caught(sent)
    /\ UNCHANGED currentWorkspaceId
    /\ ActivationFrame

\* The await of the cue list request ends: return true, or the catch.
cueListsSettled ==
    /\ activation.pc = "cueLists"
    /\ ~Pending(activation.awaiting)
    /\ activation' =
          IF calls[activation.awaiting].state = "resolved"
          THEN ReturnsTrue(Completed(activation, "ok"))
          ELSE Caught(Completed(activation, "failed"))
    /\ UNCHANGED currentWorkspaceId
    /\ UNCHANGED <<oscVars, portVars>>
    /\ ActivationFrame

\* The replies of the device to the requests of setActiveWorkspace.
ClientReplies ==
    {msg \in InboundMessages :
        /\ msg.address = "/reply/workspace/W/cueLists"
        /\ msg.status \in {"ok", "error"}
        /\ msg.data = "value"}

\* One client chooses workspaces and sends commands; the device answers.
NextClient ==
    \/ \E ws \in WorkspaceIds, sendOk \in BOOLEAN : setActiveWorkspace(ws, sendOk)
    \/ \E sendOk \in BOOLEAN : connectSettled(sendOk)
    \/ \E sendOk \in BOOLEAN : updatesSettled(sendOk)
    \/ cueListsSettled
    \/ \E name \in CommandNames, sendOk \in BOOLEAN : clientCommand(name, sendOk)
    \/ \E c \in 1..MaxCalls : callTimeout(c)
    \/ \E msg \in ClientReplies : handleGlobalOSCMessage(msg)

SpecClient == InitOSC /\ [][NextClient]_vars

\* --------------------------------------------- claims on the Protocol Client
\* The messages setActiveWorkspace(ws) is to send, in order.
ExpectedSteps(ws) == <<ConnectStep(ws), UpdatesStep, CueListsStep(ws)>>

\* C26.  setActiveWorkspace with a non-empty id sends the connect message,
\* the enable-updates message and the cue list request in this order, each
\* one only after the step before it completed with success; once a step
\* has failed no later message is sent and the call returns false; the call
\* returns true only when all three steps have succeeded.
C26_ActivationStepsInOrder ==
    activation.workspaceId # Null
    => LET steps == activation.steps
       IN  /\ Len(steps) <= 3
           /\ \A i \in 1..Len(steps) :
                 /\ steps[i].address = ExpectedSteps(activation.workspaceId)[i].address
                 /\ steps[i].expectReply
                       = ExpectedSteps(activation.workspaceId)[i].expectReply
                 /\ i < Len(steps) => steps[i].outcome = "ok"
                 /\ steps[i].outcome = "failed" => activation.ret = "false"
                 /\ steps[i].outcome = "pending"
                       => /\ activation.ret = "none"
                          /\ activation.awaiting \in 1..Len(calls)
           /\ activation.ret = "true"
                 => Len(steps) = 3 /\ \A i \in 1..3 : steps[i].outcome = "ok"
           /\ activation.ret = "false"
                 => steps[Len(steps)].outcome = "failed"

\* The device refused the cue list request after the connect and the
\* enable-updates steps had succeeded: the call returned false.
C26_Witness ==
    /\ activation.workspaceId # Null
    /\ Len(activation.steps) = 3
    /\ activation.steps[3].outcome = "failed"
    /\ activation.ret = "false"
    /\ \E c \in 1..Len(calls) : calls[c].error = "qlabError"

\* The step calls one of the command methods.
CommandCalled == lastCommand'.n # lastCommand.n

\* C27.  Each of go, stop, panic, reset, next and previous hands exactly one
\* message to sendOSCMessage, with expectReply = false, addressed under
\* '/workspace/<id>/' when the active workspace id is set and without scope
\* otherwise; it registers no PendingCall, and it returns true if and only
\* if the send did not fail.
C27_CommandsFireAndForget ==
    [][CommandCalled
       => /\ Len(lastCommand'.sent) = 1
          /\ lastCommand'.sent[1].expectReply = FALSE
          /\ lastCommand'.sent[1].address
                = [workspace |-> currentWorkspaceId,
                   path |-> CommandPaths[lastCommand'.name]]
          /\ UNCHANGED <<globalOSCCallbacks, calls, callbackIdCounter, wire>>
          /\ plainSends' = plainSends + (IF lastCommand'.sent[1].thrown THEN 0 ELSE 1)
          /\ lastCommand'.ret = "true" <=> ~lastCommand'.sent[1].thrown]_vars

\* A command was sent under the scope of the active workspace.
C27_Witness ==
    /\ lastCommand.n > 0
    /\ currentWorkspaceId = "wsA"
    /\ lastCommand.sent[1].address.workspace = "wsA"
    /\ lastCommand.ret = "true"

\* ------------------------------------------ claims on dispatcher faults
\* Cycle k of the log has run to its end.
CycleDone(k) == \A c \in cycles : c.id # cycleLog[k].id

\* Cycle k has emitted 'cueInfo' to session s.
PushedIn(k, s) ==
    \E i \in 1..Len(pushLog) : pushLog[i].cycle = cycleLog[k].id /\ pushLog[i].to = s

\* Cycle k is suspended and has session s still to refresh.
StillToRefresh(k, s) ==
    \E c \in cycles :
        c.id = cycleLog[k].id /\ \E j \in 1..Len(c.todo) : c.todo[j] = s

\* C28.  Dispatcher fault isolation: a refresh that fails for one session,
\* by a device query that fails or by an exception, does not abort the
\* cycle: every registered session attached to a workspace has got its
\* 'cueInfo' from the cycle or is still to be refreshed by it, a session
\* whose refresh did not throw has its registry snapshot updated, and a
\* cycle that has ended has emitted 'performance'.
C28_FaultIsolation ==
    /\ \A k \in 1..Len(cycleLog) :
          /\ \A s \in ClientIds :
                ~ReturnsAtOnce(s) => PushedIn(k, s) \/ StillToRefresh(k, s)
          /\ CycleDone(k) => cycleLog[k].broadcast
    /\ \A i \in 1..Len(pushLog) :
          pushLog[i].outcome # "thrown" => pushLog[i].stored

\* A cycle over two attached sessions has ended: the refresh of the first
\* threw, the second got its 'cueInfo' and its snapshot, 'performance' was
\* emitted.
C28_Witness ==
    \E k \in 1..Len(cycleLog) :
        /\ CycleDone(k)
        /\ cycleLog[k].broadcast
        /\ \E i, j \in 1..Len(pushLog) :
              /\ i < j
              /\ pushLog[i].cycle = cycleLog[k].id /\ pushLog[j].cycle = cycleLog[k].id
              /\ pushLog[i].to = "s1" /\ pushLog[i].outcome = "thrown"
              /\ pushLog[j].to = "s2" /\ pushLog[j].outcome = "ok" /\ pushLog[j].stored

\* ------------------------------------------------------- getWorkspaces
MaxWorkspaceCalls == 2
MaxWorkspaces == 2

\* The items a '/workspaces' reply may hold: workspace objects with or
\* without their fields, a raw argument string, null.
WorkspaceItems ==
    {[tag |-> "object", displayName |-> "Main", uniqueID |-> "wsA", hasPasscode |-> "true"],
     [tag |-> "object", displayName |-> "Main", uniqueID |-> "wsA", hasPasscode |-> "false"],
     [tag |-> "object", displayName |-> "absent", uniqueID |-> "absent",
      hasPasscode |-> "absent"],
     [tag |-> "string", displayName |-> "absent", uniqueID |-> "absent",
      hasPasscode |-> "absent"],
     [tag |-> "null", displayName |-> "absent", uniqueID |-> "absent",
      hasPasscode |-> "absent"]}

\* What sendOSCMessage('/workspaces', [], true) may resolve with: an array,
\* an object, a string, undefined.
WorkspaceResults ==
    {[tag |-> "array", items |-> items] :
        items \in UNION {[1..n -> WorkspaceItems] : n \in 0..MaxWorkspaces}}
    \cup {[tag |-> t, items |-> <<>>] : t \in {"object", "string", "undefined"}}

\* No workspace at all.
NoWorkspaces == <<>>

\* [{ name: "QLab (Default)", id: "", hasPasscode: false }]
DefaultWorkspaces == <<[name |-> "QLab (Default)", id |-> "", hasPasscode |-> FALSE]>>

\* ws => ({ name: ws.displayName || `QLab Workspace`, id: ws.uniqueID || "",
\*          hasPasscode: ws.hasPasscode || false })
MapWorkspace(ws) ==
    [name |-> IF ws.displayName # "absent" THEN ws.displayName ELSE "QLab Workspace",
     id |-> IF ws.uniqueID # "absent" THEN ws.uniqueID ELSE "",
     hasPasscode |-> ws.hasPasscode = "true"]

\* What getWorkspaces returns once its query has settled: the mapped array,
\* or the default list when the query was rejected, the result is no array
\* or an empty one, or the mapping threw on a null item.
WorkspacesFrom(outcome) ==
    IF /\ outcome.kind = "resolved"
       /\ outcome.result.tag = "array"
       /\ Len(outcome.result.items) > 0
       /\ \A i \in 1..Len(outcome.result.items) : outcome.result.items[i].tag # "null"
    THEN [i \in 1..Len(outcome.result.items) |-> MapWorkspace(outcome.result.items[i])]
    ELSE DefaultWorkspaces

\* What leaves a step of getWorkspaces alone.
WorkspacesFrame ==
    /\ UNCHANGED <<currentWorkspaceId, activation, lastCommand, allCuesCall>>
    /\ UNCHANGED <<poolVars, debounceVars, selectVars, cacheVars, routeVars>>
    /\ UNCHANGED <<discoveryVars, lookupVars, exitVars, inboundVars, launcherVars>>

\* getWorkspaces() of a client whose port is set, up to its await: the
\* '/workspaces' request is sent; a write that throws is caught at once.
getWorkspaces(sendOk) ==
    /\ workspacesCall.pc \in {"idle", "returned"}
    /\ workspacesCall.n < MaxWorkspaceCalls
    /\ SendExpectingReply(1, sendOk)
    /\ workspacesCall' =
          IF sendOk
          THEN [pc |-> "awaiting", n |-> workspacesCall.n + 1, awaiting |-> Len(calls) + 1,
                outcome |-> NoOutcome, returned |-> <<>>]
          ELSE LET outcome == [kind |-> "sendError", result |-> NoResult]
               IN  [pc |-> "returned", n |-> workspacesCall.n + 1, awaiting |-> 0,
                    outcome |-> outcome, returned |-> WorkspacesFrom(outcome)]
    /\ WorkspacesFrame

\* The await ends: with `result` when the call was resolved, in the catch
\* when it was rejected.
workspacesSettled(result) ==
    /\ workspacesCall.pc = "awaiting"
    /\ ~Pending(workspacesCall.awaiting)
    /\ LET c == calls[workspacesCall.awaiting]
           outcome == IF c.state = "resolved" THEN [kind |-> "resolved", result |-> result]
                      ELSE [kind |-> c.error, result |-> NoResult]
       IN  workspacesCall' = [workspacesCall EXCEPT !.pc = "returned", !.awaiting = 0,
                                                    !.outcome = outcome,
                                                    !.returned = WorkspacesFrom(outcome)]
    /\ UNCHANGED <<oscVars, portVars>>
    /\ WorkspacesFrame

NextWorkspaces ==
    \/ \E sendOk \in BOOLEAN : getWorkspaces(sendOk)
    \/ \E result \in WorkspaceResults : workspacesSettled(result)
    \/ \E c \in 1..MaxCalls : callTimeout(c)
    \/ \E msg \in ClientReplies : handleGlobalOSCMessage(msg)

SpecWorkspaces == InitOSC /\ [][NextWorkspaces]_vars

\* The query of the last getWorkspaces call gave no workspace: it was
\* rejected, or its result is no array or an empty one.
NoWorkspaceListed ==
    \/ workspacesCall.outcome.kind # "resolved"
    \/ workspacesCall.outcome.result.tag # "array"
    \/ Len(workspacesCall.outcome.result.items) = 0

\* C29.  getWorkspaces always returns a non-empty list: when the send
\* failed, the call timed out, the device answered with an error status, or
\* the result is empty or no array, the list is exactly one default
\* workspace with an empty id and hasPasscode false.
C29_WorkspacesNeverEmpty ==
    workspacesCall.pc = "returned"
    => /\ Len(workspacesCall.returned) > 0
       /\ NoWorkspaceListed
             => /\ Len(workspacesCall.returned) = 1
                /\ workspacesCall.returned[1].id = ""
                /\ workspacesCall.returned[1].hasPasscode = FALSE

\* getWorkspaces has returned after its query timed out.
C29_Witness ==
    /\ workspacesCall.pc = "returned"
    /\ workspacesCall.outcome.kind = "timeout"
    /\ Len(workspacesCall.returned) = 1

\* ------------------------------------------ getAllCues of the Protocol Client
MaxAllCuesCalls == 2
MaxCatalogCues == 2

\* The cue arrays a reply may hold.
CatalogTrees ==
    {WithUniqueIDs(f, <<>>) : f \in UNION {CueForests(n) : n \in 0..MaxCatalogCues}}

\* What a cue query may resolve with: an array of cues in one of the reply
\* formats, well formed or with an item the flattening throws on (null, a
\* cue list without its `cues`), or a value that is no array.
CueResults ==
    {[tag |-> "array", format |-> f, items |-> t, malformed |-> m] :
        f \in ReplyFormats, t \in CatalogTrees \ {<<>>}, m \in BOOLEAN}
    \cup {[tag |-> "array", format |-> "direct", items |-> <<>>, malformed |-> FALSE]}
    \cup {[tag |-> t, format |-> "none", items |-> <<>>, malformed |-> FALSE] :
             t \in {"object", "undefined"}}

\* The replies to '/cue_id/1/children': the format is not looked at.
ChildrenResults == {r \in CueResults : r.format \in {"direct", "none"}}

\* { number: "--", name: "No cues available", type: "info", id: "none", ... }
InfoPlaceholder == [type |-> "info", id |-> "none", depth |-> 0]

\* { number: "--", name: "Error loading cues", type: "error", id: "error", ... }
ErrorPlaceholder == [type |-> "error", id |-> "error", depth |-> 0]

\* The children query sent whatever the catalog query returned.
NeedsFallbackAlways(result) == TRUE

\* The else branch of `if (result && Array.isArray(result) && result.length > 0)`.
NeedsFallback(result) == ~(result.tag = "array" /\ Len(result.items) > 0)

\* The array `cues` after the branch for the catalog reply.
CatalogCues(result) ==
    IF result.format = "lists" THEN forEachCueList(result.items, 1, <<>>)
    ELSE processCueList(result.items, <<>>, 0)

\* The array `cues` after the branch for the children reply.
ChildrenCues(result) ==
    IF result.tag = "array" THEN processCueList(result.items, <<>>, 0) ELSE <<>>

\* From `if (cues.length === 0)` to the return; an exception thrown while
\* the reply was flattened is caught.
ReturnCues(threw, out) ==
    IF threw THEN <<ErrorPlaceholder>>
    ELSE IF Len(out) = 0 THEN <<InfoPlaceholder>> ELSE out

Rejected(kind) == [kind |-> kind, result |-> NoResult]
Resolved(result) == [kind |-> "resolved", result |-> result]

\* The outcome of the awaited call c, `result` being what it resolved with.
AwaitOutcome(c, result) ==
    IF calls[c].state = "resolved" THEN Resolved(result) ELSE Rejected(calls[c].error)

\* The call returns.
Returning(a, outcome, cues) ==
    [a EXCEPT !.pc = "returned", !.awaiting = 0,
              !.outcomes = Append(a.outcomes, outcome), !.returned = cues]

\* What leaves a step of getAllCues alone.
AllCuesFrame ==
    /\ UNCHANGED <<currentWorkspaceId, activation, lastCommand, workspacesCall>>
    /\ UNCHANGED <<poolVars, debounceVars, selectVars, cacheVars, routeVars>>
    /\ UNCHANGED <<discoveryVars, lookupVars, exitVars, inboundVars, launcherVars>>

\* getAllCues() up to its first await: the catalog query '/cueLists'.
clientGetAllCues(sendOk) ==
    /\ allCuesCall.pc \in {"idle", "returned"}
    /\ allCuesCall.n < MaxAllCuesCalls
    /\ SendExpectingReply(1, sendOk)
    /\ LET a == [pc |-> "cueLists", n |-> allCuesCall.n + 1, awaiting |-> Len(calls) + 1,
                 sent |-> <<"cueLists">>, outcomes |-> <<>>, returned |-> <<>>]
       IN  allCuesCall' = IF sendOk THEN a
                          ELSE Returning(a, Rejected("sendError"), <<ErrorPlaceholder>>)
    /\ AllCuesFrame

\* The await of the catalog query ends: its cues are returned, or the
\* children query '/cue_id/1/children' is sent, or the catch is taken.
cueListsReturned(result, sendOk) ==
    /\ allCuesCall.pc = "cueLists"
    /\ ~Pending(allCuesCall.awaiting)
    /\ LET outcome == AwaitOutcome(allCuesCall.awaiting, result) IN
       IF outcome.kind # "resolved"
       THEN /\ allCuesCall' = Returning(allCuesCall, outcome, <<ErrorPlaceholder>>)
            /\ UNCHANGED <<oscVars, portVars>>
       ELSE IF ~NeedsFallback(result)
       THEN /\ allCuesCall' =
                  Returning(allCuesCall, outcome,
                            ReturnCues(result.malformed,
                                       IF result.malformed THEN <<>>
                                       ELSE CatalogCues(result)))
            /\ UNCHANGED <<oscVars, portVars>>
       ELSE /\ SendExpectingReply(1, sendOk)
            /\ LET a == [allCuesCall EXCEPT !.pc = "children",
                                            !.awaiting = Len(calls) + 1,
                                            !.sent = Append(@, "children"),
                                            !.outcomes = Append(@, outcome)]
               IN  allCuesCall' =
                      IF sendOk THEN a
                      ELSE Returning(a, Rejected("sendError"), <<ErrorPlaceholder>>)
    /\ AllCuesFrame

\* The await of the children query ends.
childrenReturned(result) ==
    /\ allCuesCall.pc = "children"
    /\ ~Pending(allCuesCall.awaiting)
    /\ LET outcome == AwaitOutcome(allCuesCall.awaiting, result) IN
       allCuesCall' =
          IF outcome.kind # "resolved"
          THEN Returning(allCuesCall, outcome, <<ErrorPlaceholder>>)
          ELSE Returning(allCuesCall, outcome,
                         ReturnCues(result.malformed,
                                    IF result.malformed THEN <<>> ELSE ChildrenCues(result)))
    /\ UNCHANGED <<oscVars, portVars>>
    /\ AllCuesFrame

NextCatalog ==
    \/ \E sendOk \in BOOLEAN : clientGetAllCues(sendOk)
    \/ \E result \in CueResults, sendOk \in BOOLEAN : cueListsReturned(result, sendOk)
    \/ \E result \in ChildrenResults : childrenReturned(result)
    \/ \E c \in 1..MaxCalls : callTimeout(c)
    \/ \E msg \in ClientReplies : handleGlobalOSCMessage(msg)

SpecCatalog == InitOSC /\ [][NextCatalog]_vars

\* An entry of the returned sequence is a placeholder of the given type.
IsPlaceholder(e, type) == "type" \in DOMAIN e /\ e.type = type

\* A query of the call failed: it was rejected, or its reply could not be
\* flattened.
QueryFailed(o) == o.kind # "resolved" \/ o.result.malformed

\* A query of the call was answered and its reply holds no cue.
YieldsNoCue(o) ==
    /\ o.kind = "resolved"
    /\ ~o.result.malformed
    /\ \/ o.result.tag # "array"
       \/ Len(o.result.items) = 0
       \/ /\ o.result.format = "lists"
          /\ \A l \in 1..Len(o.result.items) : Len(o.result.items[l].cues) = 0

\* C30.  getAllCues of the Protocol Client never returns an empty sequence:
\* when a query fails it returns exactly one placeholder of type 'error',
\* when the queries were answered and held no cue exactly one placeholder of
\* type 'info'; the children query is sent only after the catalog query was
\* answered with nothing (no array, or an empty one).
C30_AllCuesNeverEmpty ==
    /\ Len(allCuesCall.sent) <= 2
    /\ \A i \in 1..Len(allCuesCall.sent) :
          allCuesCall.sent[i] = "children"
          => /\ i = 2
             /\ allCuesCall.outcomes[1].kind = "resolved"
             /\ \/ allCuesCall.outcomes[1].result.tag # "array"
                \/ Len(allCuesCall.outcomes[1].result.items) = 0
    /\ allCuesCall.pc = "returned"
       => LET last == allCuesCall.outcomes[Len(allCuesCall.outcomes)]
          IN  /\ Len(allCuesCall.returned) > 0
              /\ QueryFailed(last)
                    => /\ Len(allCuesCall.returned) = 1
                       /\ IsPlaceholder(allCuesCall.returned[1], "error")
              /\ YieldsNoCue(last)
                    => /\ Len(allCuesCall.returned) = 1
                       /\ IsPlaceholder(allCuesCall.returned[1], "info")
              /\ (~QueryFailed(last) /\ ~YieldsNoCue(last))
                    => \A i \in 1..Len(allCuesCall.returned) :
                          "type" \notin DOMAIN allCuesCall.returned[i]

\* The catalog query was answered with an empty array and the children
\* query timed out: one placeholder of type 'error' was returned.
C30_Witness ==
    /\ allCuesCall.pc = "returned"
    /\ allCuesCall.sent = <<"cueLists", "children">>
    /\ allCuesCall.outcomes[1].kind = "resolved"
    /\ allCuesCall.outcomes[2].kind = "timeout"
    /\ Len(allCuesCall.returned) = 1
    /\ IsPlaceholder(allCuesCall.returned[1], "error")

\* ------------------------------------- the cue-list tier across wrappers
\* The last session leaves the workspace and a session attaches again:
\* removeClientFromWorkspace cleans the wrapper up and deletes the PoolEntry,
\* getOrCreateWorkspaceConnection builds a new QLabClientWrapper for the same
\* workspace id.  The new wrapper and its client start with empty caches;
\* the module-level globalCueCache is not touched.  Taken with no cue query
\* in flight.
recreateWrapper ==
    /\ cueCalls = {}
    /\ cachedCues' = NoValue /\ lastCuesUpdate' = 0
    /\ selectedCueCache' = NoValue /\ lastSelectedUpdate' = 0
    /\ activeCueCache' = NoValue /\ lastActiveUpdate' = 0
    /\ nextCueCache' = NoValue /\ lastNextUpdate' = 0
    /\ UNCHANGED <<globalCueCache, cueCalls, cueCallCount, lastDone, cachedBeforeCommand>>
    /\ UNCHANGED <<nonCacheVars, debounceVars>>

NextCueList ==
    \/ getAllCues
    \/ \E n \in CueCallNumbers, outcome \in {"cues", "empty", "error"} :
           getAllCuesCatalogResume(n, outcome)
    \/ \E n \in CueCallNumbers, ok \in BOOLEAN : getAllCuesChildrenResume(n, ok)
    \/ recreateWrapper
    \/ \E t \in CacheInstants : advanceCacheClock(t)

SpecCueList == InitCache /\ [][NextCueList]_vars

\* A step in which the wrapper's getAllCues is called.
AllCuesCalled ==
    /\ cueCallCount' = cueCallCount + 1
    /\ \/ lastDone'.kind = "allCues" /\ lastDone'.n = cueCallCount'
       \/ \E c \in cueCalls' : c.kind = "allCues" /\ c.n = cueCallCount'

\* The call that returned last fetched a cue list from the device, and it
\* returned less than 10 s ago.
FetchedRecently ==
    /\ lastDone.kind = "allCues"
    /\ lastDone.queries > 0
    /\ clock - lastDone.returnedAt < cuesCacheTimeout

\* C31 as stated.  When a cue list of the workspace was fetched less than
\* 10 s ago, a getAllCues call for that workspace, made through the same
\* wrapper or through one created after the PoolEntry was torn down, returns
\* that list at once and sends no device query.
C31_GlobalTierServes ==
    [][(AllCuesCalled /\ FetchedRecently)
       => /\ lastDone'.n = cueCallCount'
          /\ lastDone'.returned = lastDone.returned
          /\ lastDone'.queries = 0
          /\ cueCalls' = cueCalls]_vars

\* A step in which a getAllCues call that queried the device returns.
FetchCompletes ==
    /\ lastDone'.n # lastDone.n
    /\ lastDone'.kind = "allCues"
    /\ lastDone'.queries > 0

\* C37 as stated.  When a device fetch of getAllCues completes, with cues or
\* with the error placeholder, its result is put in the global cue-list
\* cache under the current time, so that it is served for the 10 s that
\* follow.
C37_FetchCachedTenSeconds ==
    [][FetchCompletes
       => globalCueCache' = [cues |-> lastDone'.returned, lastUpdate |-> clock]]_vars

\* ------------------------------------------------ the performance counters
\* POST /api/clear_performance: the three counters are set to zero and the
\* request is answered with success.  startServer makes the same three
\* assignments before the server listens; that is the initial state.
clearKeepsErrors ==
    /\ routeCalls < MaxRouteCalls
    /\ commandsSent' = 0
    /\ totalLatencyMs' = 0
    /\ Respond("none", "clear_performance", TRUE, "none")
    /\ UNCHANGED <<callbackIdCounter, globalOSCCallbacks, calls, wire, errorCount,
                   replyLog, plainSends, sendAfterReply>>
    /\ UNCHANGED <<delayTimers, lastCommandAt>>
    /\ UNCHANGED <<poolVars, debounceVars, selectVars, cacheVars, portVars, listVars>>

clearPerformance ==
    /\ routeCalls < MaxRouteCalls
    /\ commandsSent' = 0
    /\ errorCount' = 0
    /\ totalLatencyMs' = 0
    /\ Respond("none", "clear_performance", TRUE, "none")
    /\ UNCHANGED <<callbackIdCounter, globalOSCCallbacks, calls, wire,
                   replyLog, plainSends, sendAfterReply>>
    /\ UNCHANGED <<delayTimers, lastCommandAt>>
    /\ UNCHANGED <<poolVars, debounceVars, selectVars, cacheVars, portVars, listVars>>

\* Commands, clear requests, and the reply-expecting queries of the clients
\* with their replies and deadline timers.
NextPerformance ==
    \/ \E s \in ClientIds, sendOk \in BOOLEAN : apiCommand(s, "play", sendOk)
    \/ clearPerformance
    \/ \E sendOk \in BOOLEAN : sendOSCMessageReply(1, sendOk)
    \/ \E c \in 1..MaxCalls : callTimeout(c)
    \/ \E ok \in BOOLEAN : handleReply(ok)

\* Every session is registered; any of them may be attached.
InitPerformance ==
    /\ OscIdle /\ DebounceIdle /\ SelectIdle /\ CacheIdle /\ RouteIdle /\ ListIdle
    /\ \E A \in SUBSET ClientIds : RegistryWith(A)

SpecPerformance == InitPerformance /\ [][NextPerformance]_vars

CountersZero == commandsSent = 0 /\ errorCount = 0 /\ totalLatencyMs = 0

\* A step in which a request of the route is answered.
Answered(route) == lastResponse'.n # lastResponse.n /\ lastResponse'.route = route

\* A step in which POST /api/command of an attached session runs its command.
CommandCompleted ==
    /\ Answered("command")
    /\ ~NotAttached(lastResponse'.client)
    /\ ~ConnectionLost(lastResponse'.client)

\* C32.  The three counters are zero when the service has started and right
\* after a clear request; a POST /api/command of an attached session adds
\* one to commandsSent, and one to errorCount exactly when its result is not
\* success.
C32_CountersResetAndCount ==
    /\ CountersZero
    /\ [][/\ Answered("clear_performance") => CountersZero'
          /\ CommandCompleted =>
                /\ commandsSent' = commandsSent + 1
                /\ errorCount' = errorCount + (IF lastResponse'.success THEN 0 ELSE 1)]_vars

\* A clear request was answered after a command had succeeded and been
\* counted: the counters read zero again.
C32_Witness ==
    /\ lastResponse.route = "clear_performance"
    /\ lastResponse.n = 2
    /\ Cardinality(delayTimers) = 1
    /\ CountersZero

\* C35 as stated.  errorCount never exceeds commandsSent.
C35_ErrorsWithinCommands == errorCount <= commandsSent

\* ----------------------------------------- claims on the pool's bookkeeping
\* C33 as stated.  Every PoolEntry's refCount equals the number of session
\* ids in its attached set and is at least 1, whatever attaches run
\* concurrently and whatever connect requests of one session overlap.
C33_RefCountMatchesAttached ==
    \A w \in PoolKeys :
        workspacePool[w].present
        => /\ workspacePool[w].refCount = Cardinality(workspacePool[w].clients)
           /\ workspacePool[w].refCount >= 1

\* C34 as stated.  A session id is in the attached set of the PoolEntry of W
\* iff the registry holds the session with workspaceId = W, W being a
\* workspace id and not null: so after an attach the recorded workspaceId is
\* non-null and names a live entry, and no entry keeps a session whose
\* registry entry was removed.
C34_RegistryPoolCoherent ==
    \A s \in ClientIds :
        /\ \A w \in PoolKeys :
              (workspacePool[w].present /\ s \in workspacePool[w].clients)
              => (clientConnections[s] # 0 /\ AttachedTo(s) = w /\ ~Falsy(w))
        /\ (clientConnections[s] # 0 /\ ~Falsy(AttachedTo(s)))
           => /\ workspacePool[AttachedTo(s)].present
              /\ s \in workspacePool[AttachedTo(s)].clients

\* Connect requests of two sessions that are both attached to workspace
\* 'default'.
InitReconnect ==
    /\ OscIdle /\ DebounceIdle /\ SelectIdle /\ CacheIdle /\ RouteIdle /\ ListIdle
    /\ RegistryWith(ClientIds)

NextReconnect ==
    \/ \E s \in ClientIds : connectDirect(s)
    \/ \E s \in ClientIds : connectInstance(s)
    \/ \E i \in 1..MaxRequests, id \in {"", "wsA"} : connectInstanceWorkspaces(i, id)
    \/ \E i \in 1..MaxRequests, ok \in BOOLEAN : getOrCreateResume(i, ok)
    \/ \E s \in ClientIds, w \in {"default", "wsA"} : connectWorkspace(s, w)
    \/ \E i \in 1..MaxRequests, ok \in BOOLEAN : connectWorkspaceResume(i, ok)

SpecReconnect == InitReconnect /\ [][NextReconnect]_vars

\* A step in which a connect request of session s passes its first
\* statements and is suspended at an await.
ConnectSuspends(s) ==
    /\ Len(handlers') = Len(handlers) + 1
    /\ handlers'[Len(handlers')].client = s

\* A step in which a connect request of session s is answered with a failure.
ConnectFails(s) ==
    /\ lastResponse'.n # lastResponse.n
    /\ lastResponse'.route \in ConnectRoutes
    /\ lastResponse'.client = s
    /\ ~lastResponse'.success

\* C36.  A connect request of a session attached to workspace A detaches it
\* before the first await: workspaceId becomes null and A's entry loses the
\* session and one reference, or is deleted with its last reference.  The
\* failure the request is answered with later restores nothing.
C36_FailedConnectStaysDetached ==
    [][\A s \in ClientIds :
          /\ (/\ ConnectSuspends(s)
              /\ ~Falsy(AttachedTo(s))
              /\ workspacePool[AttachedTo(s)].present)
             => /\ clientObjs'[clientConnections'[s]].workspaceId = Null
                /\ IF workspacePool[AttachedTo(s)].refCount > 1
                   THEN /\ workspacePool'[AttachedTo(s)].refCount
                              = workspacePool[AttachedTo(s)].refCount - 1
                        /\ s \notin workspacePool'[AttachedTo(s)].clients
                   ELSE ~workspacePool'[AttachedTo(s)].present
          /\ ConnectFails(s)
             => /\ clientObjs'[clientConnections'[s]] = clientObjs[clientConnections[s]]
                /\ \A w \in PoolKeys :
                      /\ workspacePool'[w].refCount = workspacePool[w].refCount
                      /\ workspacePool'[w].clients = workspacePool[w].clients]_vars

\* The one connect request made, of s1 and for workspace 'wsA', was answered
\* with a failure: s1 is attached to nothing and the entry of 'default', which
\* held both sessions, holds s2 alone with one reference.
C36_Witness ==
    /\ requestCount = 1
    /\ lastResponse.n = 1
    /\ lastResponse.client = "s1"
    /\ lastResponse.route = "workspace"
    /\ ~lastResponse.success
    /\ AttachedTo("s1") = Null
    /\ workspacePool["default"].clients = {"s2"}
    /\ workspacePool["default"].refCount = 1
    /\ ~workspacePool["wsA"].present

\* ----------------------------------------------------------- GET /api/cues
\* if (connection.client && connection.refs > 0), with a refCount in place
\* of the refs the entry does not have.
RestorableByRefCount(w) ==
    /\ workspacePool[w].present
    /\ workspacePool[w].refCount > 0

\* if (connection.client && connection.refs > 0): a poolEntry has the
\* properties client, refCount, clients and instanceInfo; it has no `refs`,
\* and undefined > 0 is false.
Restorable(w) ==
    /\ workspacePool[w].present
    /\ "refs" \in DOMAIN workspacePool[w]
    /\ workspacePool[w].refs > 0

\* res.json({ cues: [] })
RespondNoCues(s) ==
    /\ routeCalls' = routeCalls + 1
    /\ lastResponse' = [n |-> routeCalls + 1, client |-> s, route |-> "cues",
                        cues |-> <<>>]

\* GET /api/cues.  For a session that is unknown or has no workspaceId the
\* handler looks for a pool entry to restore the session to, the first in
\* the order of the Map; on finding one it registers a new clientData for
\* the session, attaches it and goes on as for an attached session.  With
\* none it answers an empty list, as it does when the session's workspace has
\* no entry.  For an attached session the wrapper's getAllCues is called and
\* the answer carries what that call returns.
apiCues(s) ==
    IF NotAttached(s)
    THEN IF \E w \in PoolKeys : Restorable(w)
         THEN LET w == PoolOrder[CHOOSE i \in 1..Len(PoolOrder) :
                                    /\ Restorable(PoolOrder[i])
                                    /\ \A j \in 1..(i - 1) : ~Restorable(PoolOrder[j])]
              IN  /\ clientObjs' = Append(clientObjs, [workspaceId |-> w])
                  /\ clientConnections' =
                        [clientConnections EXCEPT ![s] = Len(clientObjs) + 1]
                  /\ workspacePool' = addClientToWorkspace(workspacePool, s, w)
                  /\ UNCHANGED <<socketState, graceTimers, handlers, liveClients,
                                 requestCount, reappeared>>
                  /\ UNCHANGED nonPoolVars
         ELSE /\ routeCalls < MaxRouteCalls
              /\ RespondNoCues(s)
              /\ UNCHANGED <<commandsSent, totalLatencyMs, delayTimers, lastCommandAt>>
              /\ UNCHANGED <<oscVars, poolVars, debounceVars, selectVars, cacheVars,
                             portVars, listVars>>
    ELSE IF ConnectionLost(s)
    THEN /\ routeCalls < MaxRouteCalls
         /\ RespondNoCues(s)
         /\ UNCHANGED <<commandsSent, totalLatencyMs, delayTimers, lastCommandAt>>
         /\ UNCHANGED <<oscVars, poolVars, debounceVars, selectVars, cacheVars,
                        portVars, listVars>>
    ELSE getAllCues

NextCues ==
    \/ \E s \in ClientIds : apiCues(s)
    \/ \E n \in CueCallNumbers, outcome \in {"cues", "empty", "error"} :
           getAllCuesCatalogResume(n, outcome)
    \/ \E n \in CueCallNumbers, ok \in BOOLEAN : getAllCuesChildrenResume(n, ok)
    \/ \E t \in CacheInstants : advanceCacheClock(t)

SpecCues == InitRoutes /\ [][NextCues]_vars

MaxChildren == 2        \* child processes spawned in one behaviour
MaxLaunchCalls == 4     \* calls of startServer, startServerInProcess, stopServer

\* serverProcess = spawn(...) and serverProcess = { inProcess: true }
Child(c) == [kind |-> "child", id |-> c]
InProcess == [kind |-> "inProcess", id |-> 0]

\* The value a start or stop function returns.
Returns(op, success, error) ==
    lastLaunch' = [n |-> lastLaunch.n + 1, op |-> op, success |-> success,
                   error |-> error]

\* The launcher's variables other than the record of the call.
launcherState == <<isPackaged, serverProcess, inProcessServer, children,
                   autoStartPending>>

\* A guard that never finds a server running.
NeverRunning == FALSE

\* if (serverProcess)
AlreadyRunning == serverProcess.kind # "null"

\* startServer(): refuse when a server is tracked; otherwise spawn node on
\* server.js and keep the child in serverProcess.  found = FALSE: the
\* packaged app finds no server.js and the function throws before spawn.
startServer(found) ==
    IF AlreadyRunning
    THEN /\ Returns("startServer", FALSE, "Server is already running")
         /\ UNCHANGED <<serverProcess, inProcessServer, children>>
    ELSE IF isPackaged /\ ~found
    THEN /\ Returns("startServer", FALSE, "Could not find server.js in packaged app")
         /\ UNCHANGED <<serverProcess, inProcessServer, children>>
    ELSE /\ Len(children) < MaxChildren
         /\ children' = Append(children,
                               [pc |-> "alive", killed |-> FALSE, notified |-> FALSE])
         /\ serverProcess' = Child(Len(children) + 1)
         /\ Returns("startServer", TRUE, "none")
         /\ UNCHANGED inProcessServer

\* startServerInProcess(): refuse when a server is tracked; otherwise require
\* server.js, call its startServer() and keep its server.  loadOk = FALSE:
\* the file, a dependency or the module's startServer fails and the function
\* throws before inProcessServer is assigned.
startServerInProcess(loadOk) ==
    IF serverProcess.kind # "null" \/ inProcessServer
    THEN /\ Returns("startServerInProcess", FALSE, "Server is already running")
         /\ UNCHANGED <<serverProcess, inProcessServer, children>>
    ELSE IF ~loadOk
    THEN /\ Returns("startServerInProcess", FALSE, "Could not find server.js file")
         /\ UNCHANGED <<serverProcess, inProcessServer, children>>
    ELSE /\ inProcessServer' = TRUE
         /\ serverProcess' = InProcess
         /\ Returns("startServerInProcess", TRUE, "none")
         /\ UNCHANGED children

\* The setTimeout of app.whenReady(): startServer() when autoStart is set.
autoStart(enabled, found) ==
    /\ autoStartPending
    /\ autoStartPending' = FALSE
    /\ IF enabled
       THEN /\ lastLaunch.n < MaxLaunchCalls
            /\ startServer(found)
       ELSE UNCHANGED <<serverProcess, inProcessServer, children, lastLaunch>>
    /\ UNCHANGED isPackaged
    /\ UNCHANGED nonLauncherVars

\* ipcMain.handle('start-server')
ipcStart(ok) ==
    /\ lastLaunch.n < MaxLaunchCalls
    /\ IF isPackaged THEN startServerInProcess(ok) ELSE startServer(ok)
    /\ UNCHANGED <<isPackaged, autoStartPending>>
    /\ UNCHANGED nonLauncherVars

\* stopServer(), called by ipcMain.handle('stop-server'), 'window-all-closed'
\* and 'before-quit'.
stopServer ==
    /\ lastLaunch.n < MaxLaunchCalls
    /\ IF serverProcess.kind = "null" /\ ~inProcessServer
       THEN /\ Returns("stopServer", FALSE, "Server is not running")
            /\ UNCHANGED <<serverProcess, inProcessServer, children>>
       ELSE /\ Returns("stopServer", TRUE, "none")
            /\ serverProcess' = NoProcess
            /\ IF serverProcess.kind = "child"
               THEN /\ children' = [children EXCEPT ![serverProcess.id].killed = TRUE]
                    /\ UNCHANGED inProcessServer
               ELSE /\ inProcessServer' = FALSE
                    /\ UNCHANGED children
    /\ UNCHANGED <<isPackaged, autoStartPending>>
    /\ UNCHANGED nonLauncherVars

\* The child process ends, by the SIGTERM it was sent or by itself.
childExits(c) ==
    /\ c \in 1..Len(children)
    /\ children[c].pc = "alive"
    /\ children' = [children EXCEPT ![c].pc = "exited"]
    /\ UNCHANGED <<isPackaged, serverProcess, inProcessServer, autoStartPending,
                   lastLaunch>>
    /\ UNCHANGED nonLauncherVars

\* serverProcess.on('close', ...) of child c: serverProcess = null.
childClose(c) ==
    /\ c \in 1..Len(children)
    /\ children[c].pc = "exited"
    /\ children' = [children EXCEPT ![c].pc = "closed", ![c].notified = TRUE]
    /\ serverProcess' = NoProcess
    /\ UNCHANGED <<isPackaged, inProcessServer, autoStartPending, lastLaunch>>
    /\ UNCHANGED nonLauncherVars

\* serverProcess.on('error', ...) of child c (the process could not be
\* spawned or signalled): serverProcess = null; 'close' follows.
childError(c) ==
    /\ c \in 1..Len(children)
    /\ children[c].pc = "alive"
    /\ ~children[c].notified
    /\ children' = [children EXCEPT ![c].pc = "exited", ![c].notified = TRUE]
    /\ serverProcess' = NoProcess
    /\ UNCHANGED <<isPackaged, inProcessServer, autoStartPending, lastLaunch>>
    /\ UNCHANGED nonLauncherVars

\* getServerStatus().running
getServerStatus == [running |-> serverProcess # NoProcess,
                    inProcess |-> serverProcess.kind = "inProcess"]

InitLauncher ==
    /\ OscIdle /\ PoolIdle /\ DebounceIdle /\ SelectIdle /\ CacheIdle /\ RouteIdle
    /\ DiscoveryIdle /\ LookupIdle /\ ExitIdle /\ InboundIdle /\ ClientIdle
    /\ \E packaged \in BOOLEAN : LauncherStart(packaged)

NextLauncher ==
    \/ \E enabled \in BOOLEAN, found \in BOOLEAN : autoStart(enabled, found)
    \/ \E ok \in BOOLEAN : ipcStart(ok)
    \/ stopServer
    \/ \E c \in 1..MaxChildren : childExits(c)
    \/ \E c \in 1..MaxChildren : childClose(c)
    \/ \E c \in 1..MaxChildren : childError(c)

SpecLauncher == InitLauncher /\ [][NextLauncher]_vars

\* ------------------------------------------------- claims on the launcher
\* A step in which one of the start functions, or stopServer, is called.
StartCalled ==
    /\ lastLaunch'.n # lastLaunch.n
    /\ lastLaunch'.op \in {"startServer", "startServerInProcess"}

StopCalled == lastLaunch'.n # lastLaunch.n /\ lastLaunch'.op = "stopServer"

\* The servers the launcher keeps track of.
TrackedServers ==
    (IF serverProcess.kind = "child" THEN {"child"} ELSE {})
    \cup (IF serverProcess.kind = "inProcess" \/ inProcessServer THEN {"inProcess"} ELSE {})

\* C39.  A start called while a server is tracked as running is answered
\* 'Server is already running' and spawns and assigns nothing; stopServer
\* called while no server is tracked is answered 'Server is not running' and
\* changes nothing; at most one server is tracked at any time.
C39_StartStopGuards ==
    /\ [](Cardinality(TrackedServers) <= 1)
    /\ [][/\ (StartCalled /\ TrackedServers # {})
             => /\ ~lastLaunch'.success
                /\ lastLaunch'.error = "Server is already running"
                /\ UNCHANGED <<serverProcess, inProcessServer, children>>
          /\ (StopCalled /\ TrackedServers = {})
             => /\ ~lastLaunch'.success
                /\ lastLaunch'.error = "Server is not running"
                /\ UNCHANGED <<serverProcess, inProcessServer, children>>]_vars

\* A start was refused while the one child spawned was tracked and alive.
C39_Witness ==
    /\ lastLaunch.op = "startServer"
    /\ lastLaunch.error = "Server is already running"
    /\ Len(children) = 1
    /\ serverProcess = Child(1)
    /\ children[1].pc = "alive" /\ ~children[1].killed

\* A child the launcher spawned, did not stop, and got no 'close' or 'error'
\* event from.
Running(c) == ~children[c].killed /\ ~children[c].notified

\* C40 as stated.  With servers run as child processes,
\* getServerStatus().running is true exactly while a spawned child has been
\* started and has neither been stopped nor ended, whatever the order of
\* stopServer, startServer and the children's 'close' and 'error' events.
C40_RunningMeansChildAlive ==
    ~isPackaged
    => (getServerStatus.running <=> \E c \in 1..Len(children) : Running(c))
====
